---------------------------- MODULE Spec2Model ----------------------------
(***************************************************************************)
(* Model of the blocker proxy: the rule engine (internal/blocker), its     *)
(* matchers, and the proxy protocol handler (package proxy).               *)
(*                                                                         *)
(* Strings are sequences of one-character strings, so that TrimSpace,      *)
(* ToLower, HasPrefix, HasSuffix, Contains and LastIndex are computed the  *)
(* way the Go code computes them.                                          *)
(***************************************************************************)
EXTENDS Integers, Sequences, FiniteSets, TLC

(***************************************************************************)
(* Bounds of the model.                                                    *)
(***************************************************************************)
\* Total number of rule-engine calls issued in one behaviour.
MaxCalls == 4
\* Number of bytes each side of a tunnel may offer before it ends.
MaxBytes == 2
\* Longest domain argument of the exhaustive part of the sequential runs.
MaxLen == 4

(***************************************************************************)
(* strings package, as used by the matchers and the rule engine.           *)
(***************************************************************************)
Lower(c) ==
  CASE c = "A" -> "a"
    [] c = "B" -> "b"
    [] c = "C" -> "c"
    [] OTHER   -> c

ToLower(s) == [i \in 1..Len(s) |-> Lower(s[i])]

IsSpace(c) == c \in {" ", "\t"}

RECURSIVE TrimLeft(_)
TrimLeft(s) ==
  IF s # <<>> /\ IsSpace(Head(s)) THEN TrimLeft(Tail(s)) ELSE s

RECURSIVE TrimRight(_)
TrimRight(s) ==
  IF s # <<>> /\ IsSpace(s[Len(s)]) THEN TrimRight(SubSeq(s, 1, Len(s) - 1)) ELSE s

TrimSpace(s) == TrimRight(TrimLeft(s))

HasPrefix(s, p) == Len(s) >= Len(p) /\ SubSeq(s, 1, Len(p)) = p

HasSuffix(s, p) == Len(s) >= Len(p) /\ SubSeq(s, Len(s) - Len(p) + 1, Len(s)) = p

Contains(s, sub) ==
  \E i \in 0..(Len(s) - Len(sub)) : SubSeq(s, i + 1, i + Len(sub)) = sub

\* strings.LastIndex for a one-character separator: 0-based index, -1 if absent.
LastIndex(s, c) ==
  IF \E i \in 1..Len(s) : s[i] = c
  THEN (CHOOSE i \in 1..Len(s) : s[i] = c /\ \A j \in (i + 1)..Len(s) : s[j] # c) - 1
  ELSE -1

(***************************************************************************)
(* Matchers (package blocker, matcher file).  A matcher is a record with   *)
(* its kind, the text Pattern() returns, and the field Match() compares.   *)
(***************************************************************************)
NewExactMatcher(domain) ==
  LET d == ToLower(TrimSpace(domain))
  IN  [kind |-> "Exact", pattern |-> d, key |-> d]

NewPrefixWildcardMatcher(pattern) ==
  LET p == ToLower(TrimSpace(pattern))
  IN  [kind |-> "PrefixWildcard", pattern |-> p,
       key |-> IF HasPrefix(p, <<"*", ".">>) THEN Tail(p) ELSE <<>>]

NewSuffixWildcardMatcher(pattern) ==
  LET p == ToLower(TrimSpace(pattern))
  IN  [kind |-> "SuffixWildcard", pattern |-> p,
       key |-> IF HasSuffix(p, <<".", "*">>) THEN SubSeq(p, 1, Len(p) - 1) ELSE <<>>]

NewDoubleWildcardMatcher(pattern) ==
  LET p == ToLower(TrimSpace(pattern))
  IN  [kind |-> "DoubleWildcard", pattern |-> p,
       key |-> IF HasPrefix(p, <<"*", ".">>) /\ HasSuffix(p, <<".", "*">>)
               THEN SubSeq(p, 2, Len(p) - 1) ELSE <<>>]

\* Fault: the prefix is tested first, so "*.x.*" is taken for a "*.x" rule.
CreateMatcher_PrefixFirst(pattern) ==
  LET p         == TrimSpace(pattern)
      hasPrefix == HasPrefix(p, <<"*", ".">>)
      hasSuffix == HasSuffix(p, <<".", "*">>)
  IN  IF hasPrefix THEN NewPrefixWildcardMatcher(p)
      ELSE IF hasSuffix THEN NewSuffixWildcardMatcher(p)
      ELSE NewExactMatcher(p)

CreateMatcher(pattern) ==
  LET p         == TrimSpace(pattern)
      hasPrefix == HasPrefix(p, <<"*", ".">>)
      hasSuffix == HasSuffix(p, <<".", "*">>)
  IN  IF hasPrefix /\ hasSuffix THEN NewDoubleWildcardMatcher(p)
      ELSE IF hasPrefix THEN NewPrefixWildcardMatcher(p)
      ELSE IF hasSuffix THEN NewSuffixWildcardMatcher(p)
      ELSE NewExactMatcher(p)

\* Fault: an exact rule that does not cover subdomains.
ExactMatch_EqualOnly(m, domain) == ToLower(TrimSpace(domain)) = m.key

ExactMatch(m, domain) ==
  LET d == ToLower(TrimSpace(domain))
  IN  d = m.key \/ HasSuffix(d, <<".">> \o m.key)

\* Fault: a "*.x" rule that also matches the bare name x.
PrefixWildcardMatch_Bare(m, domain) ==
  LET d == ToLower(TrimSpace(domain))
  IN  IF m.key = <<>> THEN FALSE
      ELSE HasSuffix(d, m.key) \/ d = Tail(m.key)

PrefixWildcardMatch(m, domain) ==
  LET d == ToLower(TrimSpace(domain))
  IN  IF m.key = <<>> THEN FALSE
      ELSE HasSuffix(d, m.key) /\ d # Tail(m.key)

\* Fault: an "x.*" rule that only looks at the start of the domain.
SuffixWildcardMatch_PrefixOnly(m, domain) ==
  LET d == ToLower(TrimSpace(domain))
  IN  IF m.key = <<>> THEN FALSE
      ELSE HasPrefix(d, m.key) /\ Len(d) - Len(m.key) > 0

SuffixWildcardMatch(m, domain) ==
  LET d == ToLower(TrimSpace(domain))
  IN  IF m.key = <<>> THEN FALSE
      ELSE IF HasPrefix(d, m.key) THEN Len(d) - Len(m.key) > 0
      ELSE Contains(d, <<".">> \o m.key)

\* Fault: a "*.x.*" rule that looks for x without the dots around it.
DoubleWildcardMatch_NoDots(m, domain) ==
  LET d == ToLower(TrimSpace(domain))
  IN  IF m.key = <<>> THEN FALSE
      ELSE Contains(d, SubSeq(m.key, 2, Len(m.key) - 1))

DoubleWildcardMatch(m, domain) ==
  LET d == ToLower(TrimSpace(domain))
  IN  IF m.key = <<>> THEN FALSE ELSE Contains(d, m.key)

\* Matcher.Match, dispatched on the matcher's dynamic type.
Match(m, domain) ==
  CASE m.kind = "Exact"          -> ExactMatch(m, domain)
    [] m.kind = "PrefixWildcard" -> PrefixWildcardMatch(m, domain)
    [] m.kind = "SuffixWildcard" -> SuffixWildcardMatch(m, domain)
    [] m.kind = "DoubleWildcard" -> DoubleWildcardMatch(m, domain)

(***************************************************************************)
(* Pure parts of Blocker.IsBlocked and Blocker.UpdateBlacklist.            *)
(***************************************************************************)
\* Fault: the port is cut at the first ":" instead of the last.
NormalizeDomain_FirstColon(domain) ==
  LET cut == {i \in 1..Len(domain) : domain[i] = ":"}
      d   == IF cut # {}
             THEN SubSeq(domain, 1, (CHOOSE i \in cut : \A j \in cut : i <= j) - 1)
             ELSE domain
  IN  ToLower(TrimSpace(d))

\* IsBlocked lines 59-64: strip the trailing ":port", lower-case, trim.
NormalizeDomain(domain) ==
  LET idx == LastIndex(domain, ":")
      d   == IF idx # -1 THEN SubSeq(domain, 1, idx) ELSE domain
  IN  ToLower(TrimSpace(d))

\* Fault: a loop that does not return at the first match and so reports the
\* last matcher that matches.
RECURSIVE Scan_KeepGoing(_, _, _)
Scan_KeepGoing(ms, domain, i) ==
  IF i > Len(ms) THEN [hit |-> 0, seen |-> {}]
  ELSE LET r == Scan_KeepGoing(ms, domain, i + 1)
       IN  [hit  |-> IF r.hit # 0 THEN r.hit
                     ELSE IF Match(ms[i], domain) THEN i ELSE 0,
            seen |-> r.seen \cup {i}]

\* IsBlocked lines 66-74, the loop from matcher number i on: hit is the index
\* of the matcher at which the loop returns true (0 when it runs to the end),
\* seen the indices of the matchers whose Match it called.
RECURSIVE Scan(_, _, _)
Scan(ms, domain, i) ==
  IF i > Len(ms) THEN [hit |-> 0, seen |-> {}]
  ELSE IF Match(ms[i], domain) THEN [hit |-> i, seen |-> {i}]
  ELSE LET r == Scan(ms, domain, i + 1)
       IN  [hit |-> r.hit, seen |-> r.seen \cup {i}]

\* Index of the matcher at which the loop over ms returns, 0 when none matches.
FirstMatch(ms, domain) == Scan(ms, domain, 1).hit

\* The value IsBlocked returns for argument d when b.matchers is ms.
DecideOn(ms, d) == FirstMatch(ms, NormalizeDomain(d)) # 0

\* Fault: blank entries are compiled like any other.
AppendPattern_KeepBlank(ms, pattern) == Append(ms, CreateMatcher(TrimSpace(pattern)))

\* One iteration of the loop of UpdateBlacklist (lines 43-49).
AppendPattern(ms, pattern) ==
  LET p == TrimSpace(pattern)
  IN  IF p = <<>> THEN ms ELSE Append(ms, CreateMatcher(p))

\* The slice UpdateBlacklist leaves in b.matchers for a whole list.
RECURSIVE CompileFrom(_, _)
CompileFrom(ms, patterns) ==
  IF patterns = <<>> THEN ms
  ELSE CompileFrom(AppendPattern(ms, Head(patterns)), Tail(patterns))

CompileList(patterns) == CompileFrom(<<>>, patterns)

\* Fault: GetPatterns reports the field Match compares, not the pattern.
PatternsOf_Keys(ms) == [i \in 1..Len(ms) |-> ms[i].key]

\* GetPatterns lines 109-113.
PatternsOf(ms) == [i \in 1..Len(ms) |-> ms[i].pattern]


(***************************************************************************)
(* Inputs of the rule engine.                                              *)
(***************************************************************************)
\* The goroutines that call the rule engine concurrently.
Procs == {"g1", "g2", "g3"}

\* Blacklists handed to UpdateBlacklist: ["b"] and ["*.b", " ", "B"].
RuleLists ==
  << << <<"b">> >>,
     << <<"*", ".", "b">>, <<" ">>, <<"B">> >> >>

ListIds == 1..Len(RuleLists)

\* Arguments of IsBlocked: "b", "A.b:8" and "c".
Domains == { <<"b">>, <<"A", ".", "b", ":", "8">>, <<"c">> }

\* The rule set installed by list number id; 0 is the empty set New() builds.
Compiled(id) == IF id = 0 THEN <<>> ELSE CompileList(RuleLists[id])

NoProc == "none"

VARIABLES
  matchers,      \* Blocker.matchers
  mu,            \* Blocker.mu: [w |-> writer holding or announced, r |-> readers]
  logBlocked,    \* Blocker.logBlocked
  logAllowed,    \* Blocker.logAllowed
  blockedCount,  \* Blocker.blockedCount
  allowedCount,  \* Blocker.allowedCount
  statsMu,       \* Blocker.statsMu: the goroutine holding it, or NoProc
  proc,          \* per goroutine: position in its call and the call's locals
  installed,     \* history: number of the list last installed by a finished UpdateBlacklist
  retBlocked,    \* history: IsBlocked calls that returned true
  retAllowed,    \* history: IsBlocked calls that returned false
  ncalls         \* history: calls issued so far

engineVars ==
  <<matchers, mu, logBlocked, logAllowed, blockedCount, allowedCount, statsMu,
    proc, installed, retBlocked, retAllowed, ncalls>>

\* State of the protocol handler, declared here so that the engine's actions
\* can leave it unchanged.
VARIABLES
  req,         \* per connection: the request being served, or NoReq
  hpc,         \* per connection: position of the handler goroutine
  trace,       \* per connection: history of the calls the handler made, in order
  resp,        \* per connection: responses written through the ResponseWriter
  sock,        \* per connection and side: "none", "server" (the client connection
               \*   while the HTTP server owns it), "open" or "closed"
  xfer,        \* per connection and direction: position of the transfer goroutine
  peer,        \* per connection and side: what the remote end has done to its
               \*   sending half: "live", "eof" or "err" (reset)
  pending,     \* per connection and side: bytes the remote end sent, not yet read
  sent,        \* per connection and side: bytes the remote end has sent in all
  stalled,     \* per connection and side: the remote end has stopped reading
  rt,          \* per connection: status of the round-trip's response, 0 before it
  wire         \* per connection and side: what the proxy wrote to that side, in order

proxyVars ==
  <<req, hpc, trace, resp, sock, xfer, peer, pending, sent, stalled, rt, wire>>

\* State of one sequential run of calls (on a new Blocker, or of handleHTTP
\* on one request), used to check the code as a function of its arguments.
VARIABLES
  fnIn,        \* the arguments of the run
  fnPc,        \* position of the run ("off": no run is made)
  fnOut        \* what the calls of the run did and returned

fnVars == <<fnIn, fnPc, fnOut>>

\* State of the proxy server (Server, wrapping net/http's Server) and of the
\* run command around it.
VARIABLES
  listener,    \* the listening socket: "none", "bound" (opened by ListenAndServe,
               \*   not yet registered with the server), "open" (accepting) or "closed"
  inShutdown,  \* http.Server's flag, set by Shutdown
  start,       \* Server.Start: position, error of ListenAndServe, value returned
  stop,        \* Server.Stop: position, value returned, seconds since it was called
  sig,         \* SIGINT/SIGTERM: "none", "sent" (in sigChan) or "taken"
  conn         \* per inbound connection: state as net/http tracks it, who closed it,
               \*   and whether it was hijacked for a tunnel: "no", "yes", or
               \*   "late" (after Stop had returned and its grace period was over)

serverVars == <<listener, inShutdown, start, stop, sig, conn>>

\* The configuration manager (package config) and the configuration file.
VARIABLES
  cfgBlacklist,  \* Manager.config.Blacklist
  cfgFile,       \* the file at Manager.configPath: [valid, blacklist]
  cfgCall,       \* the last call made on the manager: what it was given, what
                 \*   it found and what it returned
  cfgCalls       \* number of calls made

cfgVars == <<cfgBlacklist, cfgFile, cfgCall, cfgCalls>>

\* What an action of the rule engine leaves alone.
proxyIdle == UNCHANGED <<proxyVars, fnVars, serverVars, cfgVars>>

Idle ==
  [pc |-> "idle", arg |-> <<>>, domain |-> <<>>, list |-> 0, i |-> 0, hit |-> 0, tmp |-> 0,
   cands |-> {}, res |-> <<>>, logged |-> 0]

\* Blocker.New.
EngineInit ==
  /\ matchers = <<>>
  /\ mu = [w |-> NoProc, r |-> {}]
  /\ logBlocked = TRUE
  /\ logAllowed = FALSE
  /\ blockedCount = 0
  /\ allowedCount = 0
  /\ statsMu = NoProc
  /\ proc = [p \in Procs |-> Idle]
  /\ installed = 0
  /\ retBlocked = 0
  /\ retAllowed = 0
  /\ ncalls = 0

(***************************************************************************)
(* sync.RWMutex and sync.Mutex, as the engine uses them.                   *)
(***************************************************************************)
\* Fault: a read lock that is granted while a writer holds the lock.
CanRLock_Always == TRUE

\* RLock proceeds unless a writer holds the lock or has announced itself.
CanRLock == mu.w = NoProc

\* Lock first excludes other writers and new readers ...
CanAnnounceLock == mu.w = NoProc

\* Fault: a writer that does not wait for the readers still inside.
ReadersDrained_Skip == TRUE

\* ... and then waits until the readers that were inside have left.
ReadersDrained == mu.r = {}

\* Fault: counter updates that do not exclude one another.
StatsMuFree_Skip == TRUE

\* statsMu.Lock proceeds when no goroutine holds statsMu.
StatsMuFree == statsMu = NoProc

\* The lists a call that reads the rule set may legitimately observe: the one
\* installed when it was issued and those of the UpdateBlacklist calls in flight.
InUpdate(q) == proc[q].pc \in {"ub_lock", "ub_acquire", "ub_append", "ub_unlock"}

ReadsRules(q) ==
  proc[q].pc \in {"ib_rlock", "ib_range", "rec_lock", "rec_store", "ib_log",
                  "ib_runlock", "gp_rlock", "gp_read", "gp_runlock"}

CandidatesAtCall == {installed} \cup {proc[q].list : q \in {x \in Procs : InUpdate(x)}}

(***************************************************************************)
(* Blocker.IsBlocked                                                       *)
(***************************************************************************)
IB_Call(p, d) ==
  /\ proc[p].pc = "idle"
  /\ ncalls < MaxCalls
  /\ ncalls' = ncalls + 1
  /\ proc' = [proc EXCEPT ![p] = [Idle EXCEPT !.pc = "ib_rlock", !.arg = d,
                                              !.domain = d,
                                              !.cands = CandidatesAtCall]]
  /\ UNCHANGED <<matchers, mu, logBlocked, logAllowed, blockedCount, allowedCount,
                 statsMu, installed, retBlocked, retAllowed>>
  /\ proxyIdle

\* b.mu.RLock(), then lines 59-64 on the local copy of the argument.
IB_RLock(p) ==
  /\ proc[p].pc = "ib_rlock"
  /\ CanRLock
  /\ mu' = [mu EXCEPT !.r = @ \cup {p}]
  /\ proc' = [proc EXCEPT ![p].pc = "ib_range",
                          ![p].domain = NormalizeDomain(proc[p].domain)]
  /\ UNCHANGED <<matchers, logBlocked, logAllowed, blockedCount, allowedCount,
                 statsMu, installed, retBlocked, retAllowed, ncalls>>
  /\ proxyIdle

\* "range b.matchers" reads the slice once; the loop then runs on that slice.
IB_Range(p) ==
  /\ proc[p].pc = "ib_range"
  /\ proc' = [proc EXCEPT ![p].pc = "rec_lock",
                          ![p].hit = FirstMatch(matchers, proc[p].domain)]
  /\ UNCHANGED <<matchers, mu, logBlocked, logAllowed, blockedCount, allowedCount,
                 statsMu, installed, retBlocked, retAllowed, ncalls>>
  /\ proxyIdle

\* recordBlocked / recordAllowed: statsMu.Lock() and the load of the counter.
Rec_Lock(p) ==
  /\ proc[p].pc = "rec_lock"
  /\ StatsMuFree
  /\ statsMu' = p
  /\ proc' = [proc EXCEPT ![p].pc = "rec_store",
                          ![p].tmp = IF proc[p].hit # 0 THEN blockedCount
                                     ELSE allowedCount]
  /\ UNCHANGED <<matchers, mu, logBlocked, logAllowed, blockedCount, allowedCount,
                 installed, retBlocked, retAllowed, ncalls>>
  /\ proxyIdle

\* recordBlocked / recordAllowed: the store of the counter and statsMu.Unlock().
Rec_Store(p) ==
  /\ proc[p].pc = "rec_store"
  /\ IF proc[p].hit # 0
     THEN blockedCount' = proc[p].tmp + 1 /\ UNCHANGED allowedCount
     ELSE allowedCount' = proc[p].tmp + 1 /\ UNCHANGED blockedCount
  /\ statsMu' = NoProc
  /\ proc' = [proc EXCEPT ![p].pc = "ib_log", ![p].tmp = 0]
  /\ UNCHANGED <<matchers, mu, logBlocked, logAllowed, installed, retBlocked,
                 retAllowed, ncalls>>
  /\ proxyIdle

\* Lines 69-71 and 77-79: one log record when the flag of the outcome is set.
IB_Log(p) ==
  /\ proc[p].pc = "ib_log"
  /\ proc' = [proc EXCEPT ![p].pc = "ib_runlock",
                          ![p].logged = IF (proc[p].hit # 0 /\ logBlocked)
                                           \/ (proc[p].hit = 0 /\ logAllowed)
                                        THEN 1 ELSE 0]
  /\ UNCHANGED <<matchers, mu, logBlocked, logAllowed, blockedCount, allowedCount,
                 statsMu, installed, retBlocked, retAllowed, ncalls>>
  /\ proxyIdle

\* Fault: IsBlocked returns without releasing the read lock.
IB_Return_KeepRLock(p) ==
  /\ proc[p].pc = "ib_runlock"
  /\ IF proc[p].hit # 0
     THEN retBlocked' = retBlocked + 1 /\ UNCHANGED retAllowed
     ELSE retAllowed' = retAllowed + 1 /\ UNCHANGED retBlocked
  /\ proc' = [proc EXCEPT ![p] = Idle]
  /\ UNCHANGED <<matchers, mu, logBlocked, logAllowed, blockedCount, allowedCount,
                 statsMu, installed, ncalls>>
  /\ proxyIdle

\* return, running the deferred b.mu.RUnlock().
IB_Return(p) ==
  /\ proc[p].pc = "ib_runlock"
  /\ mu' = [mu EXCEPT !.r = @ \ {p}]
  /\ IF proc[p].hit # 0
     THEN retBlocked' = retBlocked + 1 /\ UNCHANGED retAllowed
     ELSE retAllowed' = retAllowed + 1 /\ UNCHANGED retBlocked
  /\ proc' = [proc EXCEPT ![p] = Idle]
  /\ UNCHANGED <<matchers, logBlocked, logAllowed, blockedCount, allowedCount,
                 statsMu, installed, ncalls>>
  /\ proxyIdle

(***************************************************************************)
(* Blocker.UpdateBlacklist                                                 *)
(***************************************************************************)
UB_Call(p, id) ==
  /\ proc[p].pc = "idle"
  /\ ncalls < MaxCalls
  /\ ncalls' = ncalls + 1
  /\ proc' = [q \in Procs |->
                IF q = p THEN [Idle EXCEPT !.pc = "ub_lock", !.list = id]
                ELSE IF ReadsRules(q) THEN [proc[q] EXCEPT !.cands = @ \cup {id}]
                ELSE proc[q]]
  /\ UNCHANGED <<matchers, mu, logBlocked, logAllowed, blockedCount, allowedCount,
                 statsMu, installed, retBlocked, retAllowed>>
  /\ proxyIdle

\* b.mu.Lock(), first half: exclude other writers and new readers.
UB_Lock(p) ==
  /\ proc[p].pc = "ub_lock"
  /\ CanAnnounceLock
  /\ mu' = [mu EXCEPT !.w = p]
  /\ proc' = [proc EXCEPT ![p].pc = "ub_acquire"]
  /\ UNCHANGED <<matchers, logBlocked, logAllowed, blockedCount, allowedCount,
                 statsMu, installed, retBlocked, retAllowed, ncalls>>
  /\ proxyIdle

\* Fault: installing a blacklist starts the statistics afresh.
UB_Acquire_ResetStats(p) ==
  /\ proc[p].pc = "ub_acquire"
  /\ ReadersDrained
  /\ matchers' = <<>>
  /\ blockedCount' = 0
  /\ allowedCount' = 0
  /\ proc' = [proc EXCEPT ![p].pc = "ub_append", ![p].i = 1]
  /\ UNCHANGED <<mu, logBlocked, logAllowed,
                 statsMu, installed, retBlocked, retAllowed, ncalls>>
  /\ proxyIdle

\* b.mu.Lock(), second half, and line 42: b.matchers = make([]Matcher, 0, n).
UB_Acquire(p) ==
  /\ proc[p].pc = "ub_acquire"
  /\ ReadersDrained
  /\ matchers' = <<>>
  /\ proc' = [proc EXCEPT ![p].pc = "ub_append", ![p].i = 1]
  /\ UNCHANGED <<mu, logBlocked, logAllowed, blockedCount, allowedCount,
                 statsMu, installed, retBlocked, retAllowed, ncalls>>
  /\ proxyIdle

\* One iteration of the loop of lines 43-49, or its exit.
UB_Append(p) ==
  /\ proc[p].pc = "ub_append"
  /\ LET patterns == RuleLists[proc[p].list]
     IN  IF proc[p].i <= Len(patterns)
         THEN /\ matchers' = AppendPattern(matchers, patterns[proc[p].i])
              /\ proc' = [proc EXCEPT ![p].i = @ + 1]
         ELSE /\ proc' = [proc EXCEPT ![p].pc = "ub_unlock"]
              /\ UNCHANGED matchers
  /\ UNCHANGED <<mu, logBlocked, logAllowed, blockedCount, allowedCount,
                 statsMu, installed, retBlocked, retAllowed, ncalls>>
  /\ proxyIdle

\* return, running the deferred b.mu.Unlock().
UB_Return(p) ==
  /\ proc[p].pc = "ub_unlock"
  /\ mu' = [mu EXCEPT !.w = NoProc]
  /\ installed' = proc[p].list
  /\ proc' = [proc EXCEPT ![p] = Idle]
  /\ UNCHANGED <<matchers, logBlocked, logAllowed, blockedCount, allowedCount,
                 statsMu, retBlocked, retAllowed, ncalls>>
  /\ proxyIdle

(***************************************************************************)
(* Blocker.Stats                                                           *)
(***************************************************************************)
ST_Call(p) ==
  /\ proc[p].pc = "idle"
  /\ ncalls < MaxCalls
  /\ ncalls' = ncalls + 1
  /\ proc' = [proc EXCEPT ![p] = [Idle EXCEPT !.pc = "st_lock"]]
  /\ UNCHANGED <<matchers, mu, logBlocked, logAllowed, blockedCount, allowedCount,
                 statsMu, installed, retBlocked, retAllowed>>
  /\ proxyIdle

\* b.statsMu.Lock() and the evaluation of the two results.
ST_Lock(p) ==
  /\ proc[p].pc = "st_lock"
  /\ StatsMuFree
  /\ statsMu' = p
  /\ proc' = [proc EXCEPT ![p].pc = "st_unlock",
                          ![p].res = <<blockedCount, allowedCount>>]
  /\ UNCHANGED <<matchers, mu, logBlocked, logAllowed, blockedCount, allowedCount,
                 installed, retBlocked, retAllowed, ncalls>>
  /\ proxyIdle

\* return, running the deferred b.statsMu.Unlock().
ST_Return(p) ==
  /\ proc[p].pc = "st_unlock"
  /\ statsMu' = NoProc
  /\ proc' = [proc EXCEPT ![p] = Idle]
  /\ UNCHANGED <<matchers, mu, logBlocked, logAllowed, blockedCount, allowedCount,
                 installed, retBlocked, retAllowed, ncalls>>
  /\ proxyIdle

(***************************************************************************)
(* Blocker.GetPatterns                                                     *)
(***************************************************************************)
GP_Call(p) ==
  /\ proc[p].pc = "idle"
  /\ ncalls < MaxCalls
  /\ ncalls' = ncalls + 1
  /\ proc' = [proc EXCEPT ![p] = [Idle EXCEPT !.pc = "gp_rlock",
                                              !.cands = CandidatesAtCall]]
  /\ UNCHANGED <<matchers, mu, logBlocked, logAllowed, blockedCount, allowedCount,
                 statsMu, installed, retBlocked, retAllowed>>
  /\ proxyIdle

GP_RLock(p) ==
  /\ proc[p].pc = "gp_rlock"
  /\ CanRLock
  /\ mu' = [mu EXCEPT !.r = @ \cup {p}]
  /\ proc' = [proc EXCEPT ![p].pc = "gp_read"]
  /\ UNCHANGED <<matchers, logBlocked, logAllowed, blockedCount, allowedCount,
                 statsMu, installed, retBlocked, retAllowed, ncalls>>
  /\ proxyIdle

\* Lines 109-112: the copy of the patterns of b.matchers.
GP_Read(p) ==
  /\ proc[p].pc = "gp_read"
  /\ proc' = [proc EXCEPT ![p].pc = "gp_runlock", ![p].res = PatternsOf(matchers)]
  /\ UNCHANGED <<matchers, mu, logBlocked, logAllowed, blockedCount, allowedCount,
                 statsMu, installed, retBlocked, retAllowed, ncalls>>
  /\ proxyIdle

GP_Return(p) ==
  /\ proc[p].pc = "gp_runlock"
  /\ mu' = [mu EXCEPT !.r = @ \ {p}]
  /\ proc' = [proc EXCEPT ![p] = Idle]
  /\ UNCHANGED <<matchers, logBlocked, logAllowed, blockedCount, allowedCount,
                 statsMu, installed, retBlocked, retAllowed, ncalls>>
  /\ proxyIdle

(***************************************************************************)
(* Blocker.SetLogging                                                      *)
(***************************************************************************)
\* The pairs of flags handed to SetLogging.
LogSettings == { <<FALSE, TRUE>>, <<TRUE, FALSE>> }

SL_Call(p, flags) ==
  /\ proc[p].pc = "idle"
  /\ ncalls < MaxCalls
  /\ ncalls' = ncalls + 1
  /\ proc' = [proc EXCEPT ![p] = [Idle EXCEPT !.pc = "sl_blocked", !.res = flags]]
  /\ UNCHANGED <<matchers, mu, logBlocked, logAllowed, blockedCount, allowedCount,
                 statsMu, installed, retBlocked, retAllowed>>
  /\ proxyIdle

\* Line 33: b.logBlocked = logBlocked, with no lock taken.
SL_WriteBlocked(p) ==
  /\ proc[p].pc = "sl_blocked"
  /\ logBlocked' = proc[p].res[1]
  /\ proc' = [proc EXCEPT ![p].pc = "sl_allowed"]
  /\ UNCHANGED <<matchers, mu, logAllowed, blockedCount, allowedCount,
                 statsMu, installed, retBlocked, retAllowed, ncalls>>
  /\ proxyIdle

\* Line 34: b.logAllowed = logAllowed, with no lock taken, and the return.
SL_WriteAllowed(p) ==
  /\ proc[p].pc = "sl_allowed"
  /\ logAllowed' = proc[p].res[2]
  /\ proc' = [proc EXCEPT ![p] = Idle]
  /\ UNCHANGED <<matchers, mu, logBlocked, blockedCount, allowedCount,
                 statsMu, installed, retBlocked, retAllowed, ncalls>>
  /\ proxyIdle

EngineNext ==
  \E p \in Procs :
    \/ \E d \in Domains : IB_Call(p, d)
    \/ IB_RLock(p)
    \/ IB_Range(p)
    \/ Rec_Lock(p)
    \/ Rec_Store(p)
    \/ IB_Log(p)
    \/ IB_Return(p)
    \/ \E id \in ListIds : UB_Call(p, id)
    \/ UB_Lock(p)
    \/ UB_Acquire(p)
    \/ UB_Append(p)
    \/ UB_Return(p)
    \/ ST_Call(p)
    \/ ST_Lock(p)
    \/ ST_Return(p)
    \/ GP_Call(p)
    \/ GP_RLock(p)
    \/ GP_Read(p)
    \/ GP_Return(p)
    \/ \E flags \in LogSettings : SL_Call(p, flags)
    \/ SL_WriteBlocked(p)
    \/ SL_WriteAllowed(p)

(***************************************************************************)
(* The proxy protocol handler (package proxy): Handler.ServeHTTP,          *)
(* handleHTTP, handleConnect, serveBlocked and transfer.                   *)
(***************************************************************************)
\* Inbound connections, each carrying one request.  Connections share nothing
\* but the rule engine, whose concurrent use Spec covers, so one is followed.
Conns == {"c1"}

\* r.Host values: "A.b:8" and "c:8".
Hosts == { <<"A", ".", "b", ":", "8">>, <<"c", ":", "8">> }

\* Decoded requests: r.Method, r.Host and r.URL.Host.  A plain-HTTP request
\* may come without a Host field, its host being in the absolute URL.
Requests ==
  [method : {"CONNECT", "GET"}, host : Hosts, urlHost : {<<>>}]
    \cup [method : {"GET"}, host : {<<>>}, urlHost : Hosts]

NoReq == [method |-> "", host |-> <<>>, urlHost |-> <<>>]

\* Status codes an origin server answers with.
OriginStatus == {200, 404}

Sides == {"client", "dest"}

\* transfer(dst, src): "toDest" is transfer(destConn, clientConn) and
\* "toClient" is transfer(clientConn, destConn).
Dirs == {"toDest", "toClient"}

Src(dir) == IF dir = "toDest" THEN "client" ELSE "dest"

Dst(dir) == IF dir = "toDest" THEN "dest" ELSE "client"

ProxyInit ==
  /\ req = [c \in Conns |-> NoReq]
  /\ hpc = [c \in Conns |-> "idle"]
  /\ trace = [c \in Conns |-> <<>>]
  /\ resp = [c \in Conns |-> <<>>]
  /\ sock = [c \in Conns |-> [client |-> "server", dest |-> "none"]]
  /\ xfer = [c \in Conns |-> [toDest |-> "none", toClient |-> "none"]]
  /\ peer = [c \in Conns |-> [client |-> "live", dest |-> "live"]]
  /\ pending = [c \in Conns |-> [client |-> 0, dest |-> 0]]
  /\ sent = [c \in Conns |-> [client |-> 0, dest |-> 0]]
  /\ stalled = [c \in Conns |-> [client |-> FALSE, dest |-> FALSE]]
  /\ rt = [c \in Conns |-> 0]
  /\ wire = [c \in Conns |-> [client |-> <<>>, dest |-> <<>>]]

\* The body serveBlocked writes (lines 140-171).
BlockPage == "<!DOCTYPE html>...<h1>Access Blocked</h1>...</html>"

\* http.Error(w, msg, code).
ErrorResponse(code, msg) ==
  [status |-> code, ctype |-> "text/plain; charset=utf-8", body |-> msg]

\* serveBlocked (lines 137-172).
BlockedResponse ==
  [status |-> 403, ctype |-> "text/html; charset=utf-8", body |-> BlockPage]

\* Lines 48-51: the host handleHTTP checks.
HTTPHost(r) == IF r.host = <<>> THEN r.urlHost ELSE r.host

\* h.blocker.IsBlocked(host) as one call: its result and its counter update.
CallIsBlocked(host, result) ==
  /\ result = DecideOn(matchers, host)
  /\ IF result
     THEN /\ blockedCount' = blockedCount + 1
          /\ retBlocked' = retBlocked + 1
          /\ UNCHANGED <<allowedCount, retAllowed>>
     ELSE /\ allowedCount' = allowedCount + 1
          /\ retAllowed' = retAllowed + 1
          /\ UNCHANGED <<blockedCount, retBlocked>>
  /\ UNCHANGED <<matchers, mu, logBlocked, logAllowed, statsMu, proc, installed,
                 ncalls>>
  /\ UNCHANGED <<fnVars, serverVars, cfgVars>>

\* What an action of the handler that does not call the engine leaves alone.
engineIdle == UNCHANGED <<engineVars, fnVars, serverVars, cfgVars>>

(***************************************************************************)
(* Branches of the handlers, as the position the handler moves to.         *)
(***************************************************************************)
\* Fault: the blocked branch falls through to the dial.
ConnectOnDecision_Dial(blocked) == "hc_dial"

\* handleConnect lines 101-104.
ConnectOnDecision(blocked) == IF blocked THEN "hc_forbidden" ELSE "hc_dial"

\* Fault: a failed dial is tried again.
ConnectOnDial_Retry(err) == IF err THEN "hc_dial" ELSE "hc_hijack"

\* handleConnect lines 107-111.
ConnectOnDial(err) == IF err THEN "hc_badgateway" ELSE "hc_hijack"

\* Fault: the outcome of the hijack is not looked at.
ConnectOnHijack_Ignore(outcome) == "hc_write200"

\* handleConnect lines 114-126.
ConnectOnHijack(outcome) ==
  CASE outcome = "notHijacker" -> "hc_unsupported"
    [] outcome = "error"       -> "hc_hijackfailed"
    [] outcome = "ok"          -> "hc_write200"

\* Fault: the destination connection is left open.
DestAfterHijackFailure_Leak == "open"

\* handleConnect lines 117 and 124: destConn.Close().
DestAfterHijackFailure == "closed"

\* Fault: a blocked request is forwarded.
HTTPOnDecision_Forward(blocked) == "hh_roundtrip"

\* handleHTTP lines 54-57.
HTTPOnDecision(blocked) == IF blocked THEN "hh_blocked" ELSE "hh_roundtrip"

\* Fault: a failed round-trip is tried again.
HTTPOnRoundTrip_Retry(err) == IF err THEN "hh_roundtrip" ELSE "hh_relay"

\* handleHTTP lines 76-80.
HTTPOnRoundTrip(err) == IF err THEN "hh_badgateway" ELSE "hh_relay"

\* Fault: transfer closes only its source.
TransferCloses_SrcOnly(dir) == <<Src(dir)>>

\* transfer lines 176-177: the deferred calls run src.Close(), then dst.Close().
TransferCloses(dir) == <<Src(dir), Dst(dir)>>

\* Fault: the handler returns after starting one copy only.
AfterFirstSpawn_Return == "done"

\* handleConnect lines 132-133: the second "go transfer" follows the first.
AfterFirstSpawn == "hc_go2"

\* handleConnect lines 133-134: the handler returns once both goroutines are
\* started; it does not wait for them.
AfterSecondSpawn == "done"

(***************************************************************************)
(* Handler.ServeHTTP and the two handlers.                                 *)
(***************************************************************************)
handlerOnly == UNCHANGED <<sock, xfer, peer, pending, sent, stalled, rt, wire>>

\* ServeHTTP lines 37-43: dispatch on the method.
ServeHTTP(c, r) ==
  /\ hpc[c] = "idle"
  /\ req' = [req EXCEPT ![c] = r]
  /\ hpc' = [hpc EXCEPT ![c] = IF r.method = "CONNECT" THEN "hc_check" ELSE "hh_check"]
  /\ UNCHANGED <<trace, resp>>
  /\ handlerOnly
  /\ engineIdle

\* handleConnect lines 98-101: the decision on r.Host.
HC_Check(c) ==
  /\ hpc[c] = "hc_check"
  /\ \E blocked \in BOOLEAN :
       /\ CallIsBlocked(req[c].host, blocked)
       /\ hpc' = [hpc EXCEPT ![c] = ConnectOnDecision(blocked)]
  /\ trace' = [trace EXCEPT ![c] = Append(@, "IsBlocked")]
  /\ UNCHANGED <<req, resp>>
  /\ handlerOnly

\* handleConnect lines 102-103.
HC_Forbidden(c) ==
  /\ hpc[c] = "hc_forbidden"
  /\ resp' = [resp EXCEPT ![c] = Append(@, ErrorResponse(403, "Blocked"))]
  /\ hpc' = [hpc EXCEPT ![c] = "done"]
  /\ UNCHANGED <<req, trace>>
  /\ handlerOnly
  /\ engineIdle

\* handleConnect line 107: net.DialTimeout, which succeeds, is refused or
\* times out.
HC_Dial(c) ==
  /\ hpc[c] = "hc_dial"
  /\ \E outcome \in {"ok", "refused", "timeout"} :
       /\ sock' = [sock EXCEPT ![c].dest = IF outcome = "ok" THEN "open" ELSE @]
       /\ hpc' = [hpc EXCEPT ![c] = ConnectOnDial(outcome # "ok")]
  /\ trace' = [trace EXCEPT ![c] = Append(@, "Dial")]
  /\ UNCHANGED <<req, resp, xfer, peer, pending, sent, stalled, rt, wire>>
  /\ engineIdle

\* handleConnect lines 109-110.
HC_BadGateway(c) ==
  /\ hpc[c] = "hc_badgateway"
  /\ resp' = [resp EXCEPT ![c] = Append(@, ErrorResponse(502, "Failed to connect"))]
  /\ hpc' = [hpc EXCEPT ![c] = "done"]
  /\ UNCHANGED <<req, trace>>
  /\ handlerOnly
  /\ engineIdle

\* handleConnect lines 114-122: the type assertion and hijacker.Hijack().
HC_Hijack(c) ==
  /\ hpc[c] = "hc_hijack"
  /\ \E outcome \in {"ok", "notHijacker", "error"} :
       /\ sock' = [sock EXCEPT ![c].client = IF outcome = "ok" THEN "open" ELSE @]
       /\ trace' = [trace EXCEPT ![c] = IF outcome = "notHijacker" THEN @
                                        ELSE Append(@, "Hijack")]
       /\ hpc' = [hpc EXCEPT ![c] = ConnectOnHijack(outcome)]
  /\ UNCHANGED <<req, resp, xfer, peer, pending, sent, stalled, rt, wire>>
  /\ engineIdle

\* handleConnect lines 116-118.
HC_Unsupported(c) ==
  /\ hpc[c] = "hc_unsupported"
  /\ resp' = [resp EXCEPT ![c] = Append(@, ErrorResponse(500, "Hijacking not supported"))]
  /\ sock' = [sock EXCEPT ![c].dest = DestAfterHijackFailure]
  /\ hpc' = [hpc EXCEPT ![c] = "done"]
  /\ UNCHANGED <<req, trace, xfer, peer, pending, sent, stalled, rt, wire>>
  /\ engineIdle

\* handleConnect lines 123-125.
HC_HijackFailed(c) ==
  /\ hpc[c] = "hc_hijackfailed"
  /\ resp' = [resp EXCEPT ![c] = Append(@, ErrorResponse(500, "Hijack failed"))]
  /\ sock' = [sock EXCEPT ![c].dest = DestAfterHijackFailure]
  /\ hpc' = [hpc EXCEPT ![c] = "done"]
  /\ UNCHANGED <<req, trace, xfer, peer, pending, sent, stalled, rt, wire>>
  /\ engineIdle

\* A write on one of the proxy's sockets reaches the remote end.
Delivers(c, side) == sock[c][side] = "open" /\ peer[c][side] # "err"

\* handleConnect line 129: clientConn.Write of the 200 line; its error is dropped.
HC_Write200(c) ==
  /\ hpc[c] = "hc_write200"
  /\ wire' = [wire EXCEPT ![c].client = IF Delivers(c, "client")
                                        THEN Append(@, "200 Connection Established")
                                        ELSE @]
  /\ trace' = [trace EXCEPT ![c] = Append(@, "Write200")]
  /\ hpc' = [hpc EXCEPT ![c] = "hc_go1"]
  /\ UNCHANGED <<req, resp, sock, xfer, peer, pending, sent, stalled, rt>>
  /\ engineIdle

\* handleConnect line 132: go transfer(destConn, clientConn).
HC_Go1(c) ==
  /\ hpc[c] = "hc_go1"
  /\ xfer' = [xfer EXCEPT ![c].toDest = "copy"]
  /\ trace' = [trace EXCEPT ![c] = Append(@, "go toDest")]
  /\ hpc' = [hpc EXCEPT ![c] = AfterFirstSpawn]
  /\ UNCHANGED <<req, resp, sock, peer, pending, sent, stalled, rt, wire>>
  /\ engineIdle

\* handleConnect lines 133-134: go transfer(clientConn, destConn), and return.
HC_Go2(c) ==
  /\ hpc[c] = "hc_go2"
  /\ xfer' = [xfer EXCEPT ![c].toClient = "copy"]
  /\ trace' = [trace EXCEPT ![c] = Append(@, "go toClient")]
  /\ hpc' = [hpc EXCEPT ![c] = AfterSecondSpawn]
  /\ UNCHANGED <<req, resp, sock, peer, pending, sent, stalled, rt, wire>>
  /\ engineIdle

\* handleHTTP lines 48-54: the decision on the request's host.
HH_Check(c) ==
  /\ hpc[c] = "hh_check"
  /\ \E blocked \in BOOLEAN :
       /\ CallIsBlocked(HTTPHost(req[c]), blocked)
       /\ hpc' = [hpc EXCEPT ![c] = HTTPOnDecision(blocked)]
  /\ trace' = [trace EXCEPT ![c] = Append(@, "IsBlocked")]
  /\ UNCHANGED <<req, resp>>
  /\ handlerOnly

\* handleHTTP lines 55-56: serveBlocked.
HH_ServeBlocked(c) ==
  /\ hpc[c] = "hh_blocked"
  /\ resp' = [resp EXCEPT ![c] = Append(@, BlockedResponse)]
  /\ hpc' = [hpc EXCEPT ![c] = "done"]
  /\ UNCHANGED <<req, trace>>
  /\ handlerOnly
  /\ engineIdle

\* handleHTTP lines 60-76: the outbound request and h.transport.RoundTrip,
\* which fails or yields the origin's response.
HH_RoundTrip(c) ==
  /\ hpc[c] = "hh_roundtrip"
  /\ \E outcome \in {0} \cup OriginStatus :
       /\ rt' = [rt EXCEPT ![c] = outcome]
       /\ hpc' = [hpc EXCEPT ![c] = HTTPOnRoundTrip(outcome = 0)]
  /\ trace' = [trace EXCEPT ![c] = Append(@, "RoundTrip")]
  /\ UNCHANGED <<req, resp, sock, xfer, peer, pending, sent, stalled, wire>>
  /\ engineIdle

\* handleHTTP lines 78-79.
HH_BadGateway(c) ==
  /\ hpc[c] = "hh_badgateway"
  /\ resp' = [resp EXCEPT ![c] = Append(@, ErrorResponse(502, "Proxy error: err"))]
  /\ hpc' = [hpc EXCEPT ![c] = "done"]
  /\ UNCHANGED <<req, trace>>
  /\ handlerOnly
  /\ engineIdle

\* handleHTTP lines 81-93: the origin's status and body go to the client.
HH_Relay(c) ==
  /\ hpc[c] = "hh_relay"
  /\ resp' = [resp EXCEPT ![c] =
                Append(@, [status |-> rt[c], ctype |-> "origin", body |-> "origin"])]
  /\ hpc' = [hpc EXCEPT ![c] = "done"]
  /\ UNCHANGED <<req, trace>>
  /\ handlerOnly
  /\ engineIdle

HandlerStep(c) ==
  \/ HC_Check(c)
  \/ HC_Forbidden(c)
  \/ HC_Dial(c)
  \/ HC_BadGateway(c)
  \/ HC_Hijack(c)
  \/ HC_Unsupported(c)
  \/ HC_HijackFailed(c)
  \/ HC_Write200(c)
  \/ HC_Go1(c)
  \/ HC_Go2(c)
  \/ HH_Check(c)
  \/ HH_ServeBlocked(c)
  \/ HH_RoundTrip(c)
  \/ HH_BadGateway(c)
  \/ HH_Relay(c)

(***************************************************************************)
(* The remote ends of a tunnel.                                            *)
(***************************************************************************)
tunnelOnly == UNCHANGED <<req, hpc, trace, resp, rt>>

PeerSend(c, side) ==
  /\ sock[c][side] = "open"
  /\ peer[c][side] = "live"
  /\ sent[c][side] < MaxBytes
  /\ sent' = [sent EXCEPT ![c][side] = @ + 1]
  /\ pending' = [pending EXCEPT ![c][side] = @ + 1]
  /\ UNCHANGED <<sock, xfer, peer, stalled, wire>>
  /\ tunnelOnly
  /\ engineIdle

\* The remote end closes its sending half.
PeerEOF(c, side) ==
  /\ sock[c][side] = "open"
  /\ peer[c][side] = "live"
  /\ peer' = [peer EXCEPT ![c][side] = "eof"]
  /\ UNCHANGED <<sock, xfer, pending, sent, stalled, wire>>
  /\ tunnelOnly
  /\ engineIdle

\* The remote end resets the connection.
PeerErr(c, side) ==
  /\ sock[c][side] = "open"
  /\ peer[c][side] \in {"live", "eof"}
  /\ peer' = [peer EXCEPT ![c][side] = "err"]
  /\ UNCHANGED <<sock, xfer, pending, sent, stalled, wire>>
  /\ tunnelOnly
  /\ engineIdle

\* The remote end stops reading: writes to it block from now on.
PeerStall(c, side) ==
  /\ sock[c][side] = "open"
  /\ ~stalled[c][side]
  /\ stalled' = [stalled EXCEPT ![c][side] = TRUE]
  /\ UNCHANGED <<sock, xfer, peer, pending, sent, wire>>
  /\ tunnelOnly
  /\ engineIdle

(***************************************************************************)
(* transfer(dst, src) (lines 175-179).                                     *)
(***************************************************************************)
\* io.Copy reads one byte from src.
T_Read(c, dir) ==
  /\ xfer[c][dir] = "copy"
  /\ sock[c][Src(dir)] = "open"
  /\ pending[c][Src(dir)] > 0
  /\ pending' = [pending EXCEPT ![c][Src(dir)] = @ - 1]
  /\ xfer' = [xfer EXCEPT ![c][dir] = "write"]
  /\ UNCHANGED <<sock, peer, sent, stalled, wire>>
  /\ tunnelOnly
  /\ engineIdle

\* io.Copy writes the byte to dst; the write blocks while the remote end of
\* dst does not read.
T_Write(c, dir) ==
  /\ xfer[c][dir] = "write"
  /\ Delivers(c, Dst(dir)) /\ ~stalled[c][Dst(dir)]
  /\ wire' = [wire EXCEPT ![c][Dst(dir)] = Append(@, "byte")]
  /\ xfer' = [xfer EXCEPT ![c][dir] = "copy"]
  /\ UNCHANGED <<sock, peer, pending, sent, stalled>>
  /\ tunnelOnly
  /\ engineIdle

\* io.Copy returns: its read of src fails (src closed here, or reset by the
\* remote end) or reaches end-of-stream, or its write to dst fails.
CopyEnds(c, dir) ==
  \/ /\ xfer[c][dir] = "copy"
     /\ \/ sock[c][Src(dir)] = "closed"
        \/ peer[c][Src(dir)] = "err"
        \/ peer[c][Src(dir)] = "eof" /\ pending[c][Src(dir)] = 0
  \/ /\ xfer[c][dir] = "write"
     /\ ~Delivers(c, Dst(dir))

T_Return(c, dir) ==
  /\ CopyEnds(c, dir)
  /\ xfer' = [xfer EXCEPT ![c][dir] = "close1"]
  /\ UNCHANGED <<sock, peer, pending, sent, stalled, wire>>
  /\ tunnelOnly
  /\ engineIdle

\* The first deferred Close.
T_CloseFirst(c, dir) ==
  /\ xfer[c][dir] = "close1"
  /\ sock' = [sock EXCEPT ![c][TransferCloses(dir)[1]] = "closed"]
  /\ xfer' = [xfer EXCEPT ![c][dir] = IF Len(TransferCloses(dir)) > 1 THEN "close2"
                                      ELSE "done"]
  /\ UNCHANGED <<peer, pending, sent, stalled, wire>>
  /\ tunnelOnly
  /\ engineIdle

\* The second deferred Close, and the goroutine's end.
T_CloseSecond(c, dir) ==
  /\ xfer[c][dir] = "close2"
  /\ sock' = [sock EXCEPT ![c][TransferCloses(dir)[2]] = "closed"]
  /\ xfer' = [xfer EXCEPT ![c][dir] = "done"]
  /\ UNCHANGED <<peer, pending, sent, stalled, wire>>
  /\ tunnelOnly
  /\ engineIdle

TransferStep(c, dir) ==
  \/ T_Read(c, dir)
  \/ T_Write(c, dir)
  \/ T_Return(c, dir)
  \/ T_CloseFirst(c, dir)
  \/ T_CloseSecond(c, dir)

ProxyNext ==
  \E c \in Conns :
    \/ \E r \in Requests : ServeHTTP(c, r)
    \/ HandlerStep(c)
    \/ \E side \in Sides :
         \/ PeerSend(c, side)
         \/ PeerEOF(c, side)
         \/ PeerErr(c, side)
         \/ PeerStall(c, side)
    \/ \E dir \in Dirs : TransferStep(c, dir)

(***************************************************************************)
(* Sequential runs: b := New(); b.UpdateBlacklist(patterns);               *)
(* b.IsBlocked(domain), for arguments drawn from bounded sets.             *)
(***************************************************************************)
\* Characters of the exhaustively enumerated arguments: a lower-case and an
\* upper-case letter, the label separator, the port separator and a blank.
FnAlphabet == {"a", "B", ".", ":", " "}

\* All strings over FnAlphabet of length at most n.
RECURSIVE StringsUpTo(_)
StringsUpTo(n) ==
  IF n = 0 THEN {<<>>}
  ELSE LET S == StringsUpTo(n - 1)
       IN  S \cup {Append(t, c) : t \in {u \in S : Len(u) = n - 1}, c \in FnAlphabet}

\* The names rules are written for: "a", "b" and "a.b".
FnNames == { <<"a">>, <<"b">>, <<"a", ".", "b">> }

\* The four shapes of a rule for name x: "x", "*.x", "x.*" and "*.x.*".
ExactRule(x)  == x

PrefixRule(x) == <<"*", ".">> \o x

SuffixRule(x) == x \o <<".", "*">>

DoubleRule(x) == <<"*", ".">> \o x \o <<".", "*">>

\* The blacklists of the runs: one rule of each shape for each name, and
\* lists of several rules: overlapping rules in both orders, a blank entry, an
\* entry in upper case with blanks around it, and the empty list.
FnLists ==
  {<<ExactRule(x)>> : x \in FnNames} \cup {<<PrefixRule(x)>> : x \in FnNames}
    \cup {<<SuffixRule(x)>> : x \in FnNames} \cup {<<DoubleRule(x)>> : x \in FnNames}
    \cup { <<DoubleRule(<<"b">>), PrefixRule(<<"b">>), ExactRule(<<"b">>)>>,
           <<ExactRule(<<"b">>), PrefixRule(<<"b">>)>>,
           <<PrefixRule(<<"b">>), ExactRule(<<"b">>)>>,
           <<SuffixRule(<<"a">>), DoubleRule(<<"a">>), ExactRule(<<"b">>)>>,
           <<DoubleRule(<<"a">>), SuffixRule(<<"a">>)>>,
           << <<" ">>, <<" ", "B", " ">>, <<"a">> >>,
           <<>> }

\* The domains the matcher tests and the README try against a rule for x:
\* x, sub.x, notx, x.other, a.x, a.b.x, x.com, x.de, x.co.uk, www.x.com,
\* notx.com.
FnExamples(x) ==
  { x,
    <<"s", "u", "b", ".">> \o x,
    <<"n", "o", "t">> \o x,
    x \o <<".", "o", "t", "h", "e", "r">>,
    <<"a", ".">> \o x,
    <<"a", ".", "b", ".">> \o x,
    x \o <<".", "c", "o", "m">>,
    x \o <<".", "d", "e">>,
    x \o <<".", "c", "o", ".", "u", "k">>,
    <<"w", "w", "w", ".">> \o x \o <<".", "c", "o", "m">>,
    <<"n", "o", "t">> \o x \o <<".", "c", "o", "m">> }

\* The arguments of IsBlocked in the runs: every short string, the examples
\* for each name, and three Host headers with a port: "A.b:8", " a.B :80 " and
\* "[::1]:8".
FnDomains ==
  StringsUpTo(MaxLen) \cup UNION {FnExamples(x) : x \in FnNames}
    \cup { <<"A", ".", "b", ":", "8">>,
           <<" ", "a", ".", "B", " ", ":", "8", "0", " ">>,
           <<"[", ":", ":", "1", "]", ":", "8">> }

NoOut == [tested |-> <<>>, hit |-> 0, seen |-> {}, result |-> FALSE, text |-> <<>>]

\* No sequential run is made.
FnOff ==
  /\ fnIn = [patterns |-> <<>>, domain |-> <<>>]
  /\ fnPc = "off"
  /\ fnOut = NoOut

\* b := New() and the choice of the arguments.
FnInit ==
  /\ fnIn \in [patterns : FnLists, domain : FnDomains]
  /\ fnPc = "new"
  /\ fnOut = NoOut

\* b.UpdateBlacklist(patterns), run to completion.
F_UpdateBlacklist ==
  /\ fnPc = "new"
  /\ matchers' = CompileList(fnIn.patterns)
  /\ fnPc' = "updated"
  /\ UNCHANGED <<mu, logBlocked, logAllowed, blockedCount, allowedCount, statsMu,
                 proc, installed, retBlocked, retAllowed, ncalls>>
  /\ UNCHANGED <<fnIn, fnOut, proxyVars, serverVars, cfgVars>>

\* b.IsBlocked(domain), run to completion: the string it tests, the loop over
\* the matchers, the counter of the outcome and the text it hands to the log.
F_IsBlocked ==
  /\ fnPc = "updated"
  /\ LET domain == NormalizeDomain(fnIn.domain)
         r      == Scan(matchers, domain, 1)
     IN  /\ fnOut' = [tested |-> domain, hit |-> r.hit, seen |-> r.seen,
                      result |-> r.hit # 0,
                      text |-> IF r.hit # 0 THEN matchers[r.hit].pattern ELSE <<>>]
         /\ IF r.hit # 0
            THEN blockedCount' = blockedCount + 1 /\ UNCHANGED allowedCount
            ELSE allowedCount' = allowedCount + 1 /\ UNCHANGED blockedCount
  /\ fnPc' = "decided"
  /\ UNCHANGED <<matchers, mu, logBlocked, logAllowed, statsMu, proc, installed,
                 retBlocked, retAllowed, ncalls>>
  /\ UNCHANGED <<fnIn, proxyVars, serverVars, cfgVars>>

FnNext == F_UpdateBlacklist \/ F_IsBlocked

(***************************************************************************)
(* Sequential runs of the whole interface of the rule engine:              *)
(*   b := New(); [b.SetLogging(..)]; b.UpdateBlacklist(prev);              *)
(*   b.UpdateBlacklist(patterns); b.GetPatterns();                         *)
(*   b.UpdateBlacklist(patterns); b.GetPatterns();                         *)
(*   b.UpdateBlacklist(<what GetPatterns returned>); b.GetPatterns();      *)
(*   b.IsBlocked(domain)                                                   *)
(* fnOut.sets keeps b.matchers as each UpdateBlacklist left it, fnOut.got  *)
(* what each GetPatterns returned, fnOut.log what IsBlocked printed.       *)
(***************************************************************************)
\* Longest exhaustively enumerated blacklist entry.
MaxPat == 3

\* Characters of the enumerated entries: the wildcard, the label separator, a
\* lower-case and an upper-case letter and a blank.
PatAlphabet == {"*", ".", "a", "B", " "}

RECURSIVE PatternsUpTo(_)
PatternsUpTo(n) ==
  IF n = 0 THEN {<<>>}
  ELSE LET S == PatternsUpTo(n - 1)
       IN  S \cup {Append(t, c) : t \in {u \in S : Len(u) = n - 1}, c \in PatAlphabet}

\* The blacklists of the runs: every short entry alone, the lists of the
\* runs above, and entries with upper-case letters and blanks around them.
RunLists ==
  {<<q>> : q \in PatternsUpTo(MaxPat)} \cup FnLists
    \cup { << <<" ", "*", ".", "B", " ">>, <<"A", ".", "*">>, <<"*", ".", "*">> >>,
           << <<"*", ".", "A", ".", "*", " ">>, <<" ">>, <<"*", ".">>, <<".", "*">>,
              <<"*", ".", "*">> >> }

\* The blacklist installed before the one under test.
PrevLists == { <<>>, << <<"*", ".", "c">>, <<"a">> >> }

\* The arguments of IsBlocked in these runs.
RuleDomains ==
  { <<>>, <<"a">>, <<"B">>, <<"a", ".", "b">>, <<"b", ".", "a">>, <<"a", ".">>,
    <<".", "a">>, <<" ", "x", ".", "A", ".", "b", ":", "8">> }

NoRun == [sets |-> <<>>, got |-> <<>>, tested |-> <<>>, hit |-> 0,
          result |-> FALSE, log |-> <<>>]

\* b := New() and the choice of the arguments.
RuleInit ==
  /\ fnIn \in [prev : PrevLists, patterns : RunLists, domain : RuleDomains,
               setLogging : BOOLEAN, flags : LogSettings]
  /\ fnPc = "new"
  /\ fnOut = NoRun

\* b.SetLogging(logBlocked, logAllowed), when the run makes the call.
R_SetLogging ==
  /\ fnPc = "new"
  /\ fnIn.setLogging
  /\ logBlocked' = fnIn.flags[1]
  /\ logAllowed' = fnIn.flags[2]
  /\ fnPc' = "configured"
  /\ UNCHANGED <<matchers, mu, blockedCount, allowedCount, statsMu, proc,
                 installed, retBlocked, retAllowed, ncalls>>
  /\ UNCHANGED <<fnIn, fnOut, proxyVars, serverVars, cfgVars>>

\* The position of the run after each call.
AfterCall ==
  [new |-> "prev", configured |-> "prev", prev |-> "once", once |-> "read1",
   read1 |-> "twice", twice |-> "read2", read2 |-> "fed", fed |-> "read3"]

\* The argument of the UpdateBlacklist call made at each position.
UpdateArg ==
  CASE fnPc \in {"new", "configured"} -> fnIn.prev
    [] fnPc \in {"prev", "read1"}     -> fnIn.patterns
    [] fnPc = "read2"                 -> fnOut.got[2]

\* b.UpdateBlacklist(...), run to completion.
R_UpdateBlacklist ==
  /\ \/ fnPc = "new" /\ ~fnIn.setLogging
     \/ fnPc \in {"configured", "prev", "read1", "read2"}
  /\ matchers' = CompileList(UpdateArg)
  /\ fnOut' = [fnOut EXCEPT !.sets = Append(@, matchers')]
  /\ fnPc' = AfterCall[fnPc]
  /\ UNCHANGED <<mu, logBlocked, logAllowed, blockedCount, allowedCount, statsMu,
                 proc, installed, retBlocked, retAllowed, ncalls>>
  /\ UNCHANGED <<fnIn, proxyVars, serverVars, cfgVars>>

\* b.GetPatterns(), run to completion.
R_GetPatterns ==
  /\ fnPc \in {"once", "twice", "fed"}
  /\ fnOut' = [fnOut EXCEPT !.got = Append(@, PatternsOf(matchers))]
  /\ fnPc' = AfterCall[fnPc]
  /\ UNCHANGED <<engineVars, fnIn, proxyVars, serverVars, cfgVars>>

\* Fault: IsBlocked prints a line whatever the flags say.
LogLines_Always(ms, hit, domain, lb, la) ==
  IF hit # 0
  THEN <<[level |-> "BLOCKED", domain |-> domain, matched |-> ms[hit].pattern]>>
  ELSE <<[level |-> "ALLOWED", domain |-> domain, matched |-> <<>>]>>

\* The lines IsBlocked prints (lines 66-68 and 76-78) when the loop returned
\* at matcher hit (0: no match) for the tested string domain.
LogLines(ms, hit, domain, lb, la) ==
  IF hit # 0
  THEN IF lb
       THEN <<[level |-> "BLOCKED", domain |-> domain, matched |-> ms[hit].pattern]>>
       ELSE <<>>
  ELSE IF la
       THEN <<[level |-> "ALLOWED", domain |-> domain, matched |-> <<>>]>>
       ELSE <<>>

\* b.IsBlocked(domain), run to completion.
R_IsBlocked ==
  /\ fnPc = "read3"
  /\ LET domain == NormalizeDomain(fnIn.domain)
         r      == Scan(matchers, domain, 1)
     IN  /\ fnOut' = [fnOut EXCEPT !.tested = domain, !.hit = r.hit,
                                   !.result = r.hit # 0,
                                   !.log = LogLines(matchers, r.hit, domain,
                                                    logBlocked, logAllowed)]
         /\ IF r.hit # 0
            THEN blockedCount' = blockedCount + 1 /\ UNCHANGED allowedCount
            ELSE allowedCount' = allowedCount + 1 /\ UNCHANGED blockedCount
  /\ fnPc' = "decided"
  /\ UNCHANGED <<matchers, mu, logBlocked, logAllowed, statsMu, proc, installed,
                 retBlocked, retAllowed, ncalls>>
  /\ UNCHANGED <<fnIn, proxyVars, serverVars, cfgVars>>

RuleNext == R_SetLogging \/ R_UpdateBlacklist \/ R_GetPatterns \/ R_IsBlocked

(***************************************************************************)
(* Headers on the plain-HTTP path (handleHTTP lines 59-94), for a host     *)
(* IsBlocked allowed.  A header map (http.Header) is a function from the   *)
(* canonical key to the sequence of its values; net/http builds r.Header   *)
(* and resp.Header from the header lines on the wire.  The model ends at   *)
(* the maps the handler hands to RoundTrip and to the ResponseWriter: what *)
(* net/http itself adds when it writes a message on a connection is not    *)
(* part of it.                                                             *)
(***************************************************************************)
\* Most header lines in an enumerated message.
MaxHdr == 2

\* textproto.CanonicalMIMEHeaderKey, on the names used here: the first letter
\* and every letter after a hyphen in upper case, the rest in lower case.
CanonicalMIMEHeaderKey(s) ==
  CASE s = "keep-alive"        -> "Keep-Alive"
    [] s = "TE"                -> "Te"
    [] s = "upgrade"           -> "Upgrade"
    [] s = "accept"            -> "Accept"
    [] s = "TRANSFER-ENCODING" -> "Transfer-Encoding"
    [] OTHER                   -> s

\* http.Header.Add.
HeaderAdd(h, key, value) ==
  LET k == CanonicalMIMEHeaderKey(key)
  IN  IF k \in DOMAIN h THEN [h EXCEPT ![k] = Append(@, value)]
      ELSE [x \in DOMAIN h \cup {k} |-> IF x = k THEN <<value>> ELSE h[x]]

\* http.Header.Del.
HeaderDel(h, key) == [x \in DOMAIN h \ {CanonicalMIMEHeaderKey(key)} |-> h[x]]

\* The header map net/http builds from the header lines of a message.
RECURSIVE ReadHeader(_, _)
ReadHeader(h, lines) ==
  IF lines = <<>> THEN h
  ELSE ReadHeader(HeaderAdd(h, Head(lines)[1], Head(lines)[2]), Tail(lines))

\* Fault: the list of hop-by-hop headers without "Upgrade".
hopHeaders_NoUpgrade ==
  <<"Connection", "Keep-Alive", "Proxy-Authenticate", "Proxy-Authorization",
    "Te", "Trailers", "Transfer-Encoding">>

hopHeaders ==
  <<"Connection", "Keep-Alive", "Proxy-Authenticate", "Proxy-Authorization",
    "Te", "Trailers", "Transfer-Encoding", "Upgrade">>

RECURSIVE DelEach(_, _)
DelEach(header, names) ==
  IF names = <<>> THEN header
  ELSE DelEach(HeaderDel(header, Head(names)), Tail(names))

removeHopHeaders(header) == DelEach(header, hopHeaders)

\* Lines 88-90: for _, value := range values { w.Header().Add(key, value) }.
RECURSIVE AddValues(_, _, _)
AddValues(dst, key, values) ==
  IF values = <<>> THEN dst
  ELSE AddValues(HeaderAdd(dst, key, Head(values)), key, Tail(values))

\* Lines 87-91: for key, values := range resp.Header { ... }, over the keys
\* not yet visited.
RECURSIVE CopyHeader(_, _, _)
CopyHeader(dst, src, keys) ==
  IF keys = {} THEN dst
  ELSE LET key == CHOOSE k \in keys : TRUE
       IN  CopyHeader(AddValues(dst, key, src[key]), src, keys \ {key})

\* Header lines of the enumerated messages, <<name, value>> as on the wire:
\* each of the eight hop-by-hop names, some in another case, and end-to-end
\* headers, one of them twice.
HeaderLines ==
  { <<"Connection", "close">>, <<"keep-alive", "5">>,
    <<"Proxy-Authenticate", "Basic">>, <<"Proxy-Authorization", "x">>,
    <<"TE", "gzip">>, <<"Trailers", "v">>, <<"TRANSFER-ENCODING", "chunked">>,
    <<"upgrade", "h2c">>, <<"Trailer", "Expires">>, <<"Accept", "a">>,
    <<"accept", "b">>, <<"X-Id", "1">> }

RECURSIVE LinesUpTo(_)
LinesUpTo(n) ==
  IF n = 0 THEN {<<>>}
  ELSE LET S == LinesUpTo(n - 1)
       IN  S \cup {Append(t, l) : t \in {u \in S : Len(u) = n - 1}, l \in HeaderLines}

\* A message with every line.
AllHeaderLines ==
  << <<"Accept", "a">>, <<"Connection", "close">>, <<"keep-alive", "5">>,
     <<"Proxy-Authenticate", "Basic">>, <<"Proxy-Authorization", "x">>,
     <<"TE", "gzip">>, <<"X-Id", "1">>, <<"Trailers", "v">>,
     <<"TRANSFER-ENCODING", "chunked">>, <<"upgrade", "h2c">>,
     <<"Trailer", "Expires">>, <<"accept", "b">> >>

\* Header lines of the origin's responses.
ResponseLines ==
  {<<l>> : l \in HeaderLines} \cup {<<>>, AllHeaderLines}

NoHeader == [x \in {} |-> <<>>]

NoExchange ==
  [reqHeader |-> NoHeader, sent |-> NoHeader, respStatus |-> 0,
   respHeader |-> NoHeader, status |-> 0, header |-> NoHeader]

\* The request as net/http hands it to ServeHTTP, and the answer the origin
\* will give (status 0: the round trip fails).
HeaderInit ==
  /\ fnIn \in [reqLines : LinesUpTo(MaxHdr) \cup {AllHeaderLines},
               respLines : ResponseLines, status : {0} \cup OriginStatus]
  /\ fnPc = "serve"
  /\ fnOut = NoExchange

headerOnly == UNCHANGED <<engineVars, fnIn, proxyVars, serverVars, cfgVars>>

\* ServeHTTP is called with the parsed request; the host is allowed (line 54).
Hdr_Serve ==
  /\ fnPc = "serve"
  /\ fnOut' = [fnOut EXCEPT !.reqHeader = ReadHeader(NoHeader, fnIn.reqLines)]
  /\ fnPc' = "forward"
  /\ headerOnly

\* Lines 60-73: *outReq = *r shares r.Header with outReq, and
\* removeHopHeaders(outReq.Header) deletes from that one map.
Hdr_Forward ==
  /\ fnPc = "forward"
  /\ fnOut' = [fnOut EXCEPT !.reqHeader = removeHopHeaders(@)]
  /\ fnPc' = "roundtrip"
  /\ headerOnly

\* Line 76, h.transport.RoundTrip(outReq) answers.
Hdr_RoundTrip ==
  /\ fnPc = "roundtrip"
  /\ fnIn.status # 0
  /\ fnOut' = [fnOut EXCEPT !.sent = fnOut.reqHeader,
                            !.respStatus = fnIn.status,
                            !.respHeader = ReadHeader(NoHeader, fnIn.respLines)]
  /\ fnPc' = "relay"
  /\ headerOnly

\* Lines 76-80, h.transport.RoundTrip(outReq) fails: http.Error writes a 502.
Hdr_BadGateway ==
  /\ fnPc = "roundtrip"
  /\ fnIn.status = 0
  /\ fnOut' = [fnOut EXCEPT !.sent = fnOut.reqHeader,
                            !.status = 502,
                            !.header = HeaderAdd(HeaderAdd(NoHeader, "Content-Type",
                                                           "text/plain; charset=utf-8"),
                                                 "X-Content-Type-Options", "nosniff")]
  /\ fnPc' = "failed"
  /\ headerOnly

\* Lines 84-92: removeHopHeaders(resp.Header), the copy into w.Header() and
\* w.WriteHeader(resp.StatusCode).
Hdr_Relay ==
  /\ fnPc = "relay"
  /\ LET stripped == removeHopHeaders(fnOut.respHeader)
     IN  fnOut' = [fnOut EXCEPT !.respHeader = stripped,
                                !.header = CopyHeader(NoHeader, stripped, DOMAIN stripped),
                                !.status = fnOut.respStatus]
  /\ fnPc' = "relayed"
  /\ headerOnly

HeaderNext == Hdr_Serve \/ Hdr_Forward \/ Hdr_RoundTrip \/ Hdr_BadGateway \/ Hdr_Relay

(***************************************************************************)
(* The configuration manager (config.Manager) as the add and remove        *)
(* commands use it: Load, AddToBlacklist, RemoveFromBlacklist and save.    *)
(* Each method holds m.mu for its whole body, so a call is one step.       *)
(***************************************************************************)
\* Most calls made on a manager in one run.
MaxEdits == 3

\* Domains given to the commands; entries are compared as strings.
CfgDomains == {"a", "A", "b"}

\* Blacklists of the configuration file at start, none with a duplicate.
CfgLists == { <<>>, <<"a">>, <<"b">>, <<"a", "b">>, <<"b", "a">>, <<"a", "A", "b">> }

\* os.WriteFile in save: the file is written, or the call fails before it
\* touched the file, or it fails after it truncated the file.
SaveOutcomes == {"written", "refused", "torn"}

NoCall == [op |-> "none", domain |-> "", before |-> <<>>,
           fileBefore |-> [valid |-> TRUE, blacklist |-> <<>>], err |-> "nil"]

\* No manager is in use.
ConfigOff ==
  /\ cfgBlacklist = <<>>
  /\ cfgFile = [valid |-> TRUE, blacklist |-> <<>>]
  /\ cfgCall = NoCall
  /\ cfgCalls = 0

\* NewManager and Load on a configuration file.
ConfigInit ==
  /\ cfgBlacklist \in CfgLists
  /\ cfgFile = [valid |-> TRUE, blacklist |-> cfgBlacklist]
  /\ cfgCall = NoCall
  /\ cfgCalls = 0

\* The loop of AddToBlacklist (lines 98-102).
InBlacklist(list, domain) == \E i \in 1..Len(list) : list[i] = domain

\* The loop of RemoveFromBlacklist (lines 114-121).
WithoutDomain(list, domain) == SelectSeq(list, LAMBDA d : d # domain)

\* The file after m.save() with the given outcome of os.WriteFile.
FileAfterSave(file, list, outcome) ==
  CASE outcome = "written" -> [valid |-> TRUE, blacklist |-> list]
    [] outcome = "refused" -> file
    [] outcome = "torn"    -> [valid |-> FALSE, blacklist |-> <<>>]

\* What m.save() returns.
SaveError(outcome) == IF outcome = "written" THEN "nil" ELSE "save"

configOnly == UNCHANGED <<engineVars, proxyVars, fnVars, serverVars>>

\* The next command starts: NewManager and Load read the file again.  What
\* Load makes of a file a failed write left behind is not modelled.
Load ==
  /\ cfgCalls < MaxEdits
  /\ cfgFile.valid
  /\ cfgBlacklist' = cfgFile.blacklist
  /\ cfgCall' = [op |-> "load", domain |-> "", before |-> cfgBlacklist,
                 fileBefore |-> cfgFile, err |-> "nil"]
  /\ cfgCalls' = cfgCalls + 1
  /\ UNCHANGED cfgFile
  /\ configOnly

\* m.AddToBlacklist(domain).
AddToBlacklist(domain, outcome) ==
  /\ cfgCalls < MaxEdits
  /\ IF InBlacklist(cfgBlacklist, domain)
     THEN /\ outcome = "written"
          /\ cfgCall' = [op |-> "add", domain |-> domain, before |-> cfgBlacklist,
                         fileBefore |-> cfgFile, err |-> "exists"]
          /\ UNCHANGED <<cfgBlacklist, cfgFile>>
     ELSE /\ cfgBlacklist' = Append(cfgBlacklist, domain)
          /\ cfgFile' = FileAfterSave(cfgFile, cfgBlacklist', outcome)
          /\ cfgCall' = [op |-> "add", domain |-> domain, before |-> cfgBlacklist,
                         fileBefore |-> cfgFile, err |-> SaveError(outcome)]
  /\ cfgCalls' = cfgCalls + 1
  /\ configOnly

\* m.RemoveFromBlacklist(domain).
RemoveFromBlacklist(domain, outcome) ==
  /\ cfgCalls < MaxEdits
  /\ IF ~InBlacklist(cfgBlacklist, domain)
     THEN /\ outcome = "written"
          /\ cfgCall' = [op |-> "remove", domain |-> domain, before |-> cfgBlacklist,
                         fileBefore |-> cfgFile, err |-> "notfound"]
          /\ UNCHANGED <<cfgBlacklist, cfgFile>>
     ELSE /\ cfgBlacklist' = WithoutDomain(cfgBlacklist, domain)
          /\ cfgFile' = FileAfterSave(cfgFile, cfgBlacklist', outcome)
          /\ cfgCall' = [op |-> "remove", domain |-> domain, before |-> cfgBlacklist,
                         fileBefore |-> cfgFile, err |-> SaveError(outcome)]
  /\ cfgCalls' = cfgCalls + 1
  /\ configOnly

ConfigNext ==
  \/ Load
  \/ \E domain \in CfgDomains : \E outcome \in SaveOutcomes :
       AddToBlacklist(domain, outcome)
  \/ \E domain \in CfgDomains : \E outcome \in SaveOutcomes :
       RemoveFromBlacklist(domain, outcome)

(***************************************************************************)
(* The proxy server (Server.Start, Server.Stop) and the signal handling of *)
(* the run command.  Start and Stop are thin wrappers of net/http's        *)
(* ListenAndServe and Shutdown, which are modelled as documented: Shutdown *)
(* closes the listeners and the idle connections, waits for the active     *)
(* ones to finish, returns the context's error when the context expires,   *)
(* and neither waits for nor closes hijacked connections.                  *)
(***************************************************************************)
\* context.WithTimeout(context.Background(), 5*time.Second) in Server.Stop.
GraceSeconds == 5

\* Inbound connections the server may accept.
SConns == {"k1", "k2"}

NoConn == [st |-> "none", by |-> "none", hij |-> "no"]

\* proxy.New: nothing listens, nothing runs.
ServerInit ==
  /\ listener = "none"
  /\ inShutdown = FALSE
  /\ start = [pc |-> "init", err |-> "none", ret |-> "none"]
  /\ stop = [pc |-> "idle", ret |-> "none", elapsed |-> 0]
  /\ sig = "none"
  /\ conn = [c \in SConns |-> NoConn]

serverOnly == UNCHANGED <<engineVars, proxyVars, fnVars, cfgVars>>

\* Fault: Start reports every outcome of ListenAndServe as success.
StartResult_Swallow(err) == "nil"

\* Start lines 244-247: the value Start returns for ListenAndServe's error.
StartResult(err) ==
  IF err # "none" /\ err # "ErrServerClosed" THEN "error" ELSE "nil"

\* runProxy line 112: return srv.Start().
Start_Call ==
  /\ start.pc = "init"
  /\ start' = [start EXCEPT !.pc = "check"]
  /\ UNCHANGED <<listener, inShutdown, stop, sig, conn>>
  /\ serverOnly

\* ListenAndServe: a server that is shutting down is not started.
LS_Check ==
  /\ start.pc = "check"
  /\ start' = IF inShutdown
              THEN [start EXCEPT !.pc = "result", !.err = "ErrServerClosed"]
              ELSE [start EXCEPT !.pc = "listen"]
  /\ UNCHANGED <<listener, inShutdown, stop, sig, conn>>
  /\ serverOnly

\* ListenAndServe: net.Listen succeeds or fails (address in use, no permission).
LS_Listen ==
  /\ start.pc = "listen"
  /\ \/ /\ listener' = "bound"
        /\ start' = [start EXCEPT !.pc = "track"]
     \/ /\ start' = [start EXCEPT !.pc = "result", !.err = "bind"]
        /\ UNCHANGED listener
  /\ UNCHANGED <<inShutdown, stop, sig, conn>>
  /\ serverOnly

\* Serve registers the listener, unless the server is shutting down; then it
\* gives up, and its deferred Close closes the listener.
LS_Track ==
  /\ start.pc = "track"
  /\ IF inShutdown
     THEN /\ listener' = "closed"
          /\ start' = [start EXCEPT !.pc = "result", !.err = "ErrServerClosed"]
     ELSE /\ listener' = "open"
          /\ start' = [start EXCEPT !.pc = "serve"]
  /\ UNCHANGED <<inShutdown, stop, sig, conn>>
  /\ serverOnly

\* Serve's accept loop: a new connection, handed to a goroutine that reads
\* its first request and calls Handler.ServeHTTP.
Accept(c) ==
  /\ start.pc = "serve"
  /\ listener = "open"
  /\ conn[c].st = "none"
  /\ conn' = [conn EXCEPT ![c].st = "active"]
  /\ UNCHANGED <<listener, inShutdown, start, stop, sig>>
  /\ serverOnly

\* Serve's accept loop: Accept fails because Shutdown closed the listener.
LS_Closed ==
  /\ start.pc = "serve"
  /\ listener = "closed"
  /\ start' = [start EXCEPT !.pc = "result", !.err = "ErrServerClosed"]
  /\ UNCHANGED <<listener, inShutdown, stop, sig, conn>>
  /\ serverOnly

\* Serve's accept loop: Accept fails for a reason of its own; Serve returns
\* that error, or ErrServerClosed when the server is shutting down, and its
\* deferred Close closes the listener.
LS_AcceptError ==
  /\ start.pc = "serve"
  /\ listener = "open"
  /\ listener' = "closed"
  /\ start' = [start EXCEPT !.pc = "result",
                            !.err = IF inShutdown THEN "ErrServerClosed" ELSE "accept"]
  /\ UNCHANGED <<inShutdown, stop, sig, conn>>
  /\ serverOnly

\* Start lines 244-247.
Start_Return ==
  /\ start.pc = "result"
  /\ start' = [start EXCEPT !.pc = "returned", !.ret = StartResult(start.err)]
  /\ UNCHANGED <<listener, inShutdown, stop, sig, conn>>
  /\ serverOnly

\* The handler returns without having hijacked the connection (handleHTTP,
\* or handleConnect on its 403, 502 and 500 paths): the connection is kept
\* for the next request, unless the server is shutting down.
ReqDone(c) ==
  /\ conn[c].st = "active"
  /\ conn' = IF inShutdown
             THEN [conn EXCEPT ![c].st = "closed", ![c].by = "server"]
             ELSE [conn EXCEPT ![c].st = "idle"]
  /\ UNCHANGED <<listener, inShutdown, start, stop, sig>>
  /\ serverOnly

\* The next request arrives on a kept connection.
NextReq(c) ==
  /\ conn[c].st = "idle"
  /\ conn' = [conn EXCEPT ![c].st = "active"]
  /\ UNCHANGED <<listener, inShutdown, start, stop, sig>>
  /\ serverOnly

\* The client closes a connection it is not tunnelling through.
ClientGone(c) ==
  /\ conn[c].st \in {"active", "idle"}
  /\ conn' = [conn EXCEPT ![c].st = "closed", ![c].by = "client"]
  /\ UNCHANGED <<listener, inShutdown, start, stop, sig>>
  /\ serverOnly

\* handleConnect line 121: hijacker.Hijack() succeeds; the server stops
\* tracking the connection.
Hijack(c) ==
  /\ conn[c].st = "active"
  /\ conn' = [conn EXCEPT ![c].st = "hijacked",
                          ![c].hij = IF stop.pc = "returned" /\ stop.elapsed = GraceSeconds
                                     THEN "late" ELSE "yes"]
  /\ UNCHANGED <<listener, inShutdown, start, stop, sig>>
  /\ serverOnly

\* transfer lines 175-179: the copies of the tunnel end and close the connection.
TunnelEnd(c) ==
  /\ conn[c].st = "hijacked"
  /\ conn' = [conn EXCEPT ![c].st = "closed", ![c].by = "transfer"]
  /\ UNCHANGED <<listener, inShutdown, start, stop, sig>>
  /\ serverOnly

\* A SIGINT or SIGTERM is delivered to sigChan (runProxy lines 99-100).
Signal ==
  /\ sig = "none"
  /\ sig' = "sent"
  /\ UNCHANGED <<listener, inShutdown, start, stop, conn>>
  /\ serverOnly

\* runProxy lines 102-106: the goroutine receives the signal and calls srv.Stop().
SigHandler ==
  /\ sig = "sent"
  /\ sig' = "taken"
  /\ stop' = [stop EXCEPT !.pc = "begin"]
  /\ UNCHANGED <<listener, inShutdown, start, conn>>
  /\ serverOnly

\* Stop lines 254-257, Shutdown's first part: the flag is set and the
\* registered listener is closed.
Stop_Begin ==
  /\ stop.pc = "begin"
  /\ inShutdown' = TRUE
  /\ listener' = IF listener = "open" THEN "closed" ELSE listener
  /\ stop' = [stop EXCEPT !.pc = "poll"]
  /\ UNCHANGED <<start, sig, conn>>
  /\ serverOnly

\* Shutdown has work to do: an idle connection to close, or no active
\* connection left to wait for.
PollProgress ==
  \/ \E c \in SConns : conn[c].st = "idle"
  \/ \A c \in SConns : conn[c].st # "active"

\* Shutdown's loop: close the idle connections; return nil when no connection
\* the server tracks is left.  Hijacked connections are not tracked.
Stop_Poll ==
  /\ stop.pc = "poll"
  /\ PollProgress
  /\ conn' = [c \in SConns |->
                IF conn[c].st = "idle"
                THEN [conn[c] EXCEPT !.st = "closed", !.by = "shutdown"]
                ELSE conn[c]]
  /\ stop' = IF \A c \in SConns : conn[c].st # "active"
             THEN [stop EXCEPT !.pc = "returned", !.ret = "nil"]
             ELSE stop
  /\ UNCHANGED <<listener, inShutdown, start, sig>>
  /\ serverOnly

\* A second of the grace period passes, while Shutdown waits for an active
\* connection (its loop polls many times a second, so no work is pending when
\* a second passes) or after Stop has returned.
Tick ==
  /\ \/ stop.pc = "poll" /\ ~PollProgress
     \/ stop.pc = "returned"
  /\ stop.elapsed < GraceSeconds
  /\ stop' = [stop EXCEPT !.elapsed = @ + 1]
  /\ UNCHANGED <<listener, inShutdown, start, sig, conn>>
  /\ serverOnly

\* The context of Stop expires while Shutdown waits: Shutdown returns the
\* context's error, and Stop returns it; no connection is touched.
Stop_Deadline ==
  /\ stop.pc = "poll"
  /\ ~PollProgress
  /\ stop.elapsed = GraceSeconds
  /\ stop' = [stop EXCEPT !.pc = "returned", !.ret = "deadline"]
  /\ UNCHANGED <<listener, inShutdown, start, sig, conn>>
  /\ serverOnly

ServerNext ==
  \/ Start_Call
  \/ LS_Check
  \/ LS_Listen
  \/ LS_Track
  \/ LS_Closed
  \/ LS_AcceptError
  \/ Start_Return
  \/ Signal
  \/ SigHandler
  \/ Stop_Begin
  \/ Stop_Poll
  \/ Tick
  \/ Stop_Deadline
  \/ \E c \in SConns :
       \/ Accept(c)
       \/ ReqDone(c)
       \/ NextReq(c)
       \/ ClientGone(c)
       \/ Hijack(c)
       \/ TunnelEnd(c)

(***************************************************************************)
(* Specifications.                                                         *)
(***************************************************************************)
vars == <<engineVars, proxyVars, fnVars, serverVars, cfgVars>>

\* The rule engine under concurrent calls; no request is being served.
Init == EngineInit /\ ProxyInit /\ FnOff /\ ServerInit /\ ConfigOff

Next == EngineNext

Spec == Init /\ [][Next]_vars

\* The steps of a call of UpdateBlacklist, IsBlocked, Stats or GetPatterns
\* that goroutine p has begun.
LockStep(p) ==
  \/ IB_RLock(p) \/ IB_Range(p) \/ Rec_Lock(p) \/ Rec_Store(p) \/ IB_Log(p)
  \/ IB_Return(p)
  \/ UB_Lock(p) \/ UB_Acquire(p) \/ UB_Append(p) \/ UB_Return(p)
  \/ ST_Lock(p) \/ ST_Return(p)
  \/ GP_RLock(p) \/ GP_Read(p) \/ GP_Return(p)

\* Goroutines are scheduled fairly: a call that can take its next step
\* eventually takes it.  Whether a goroutine makes another call is up to it.
LiveFairness == \A p \in Procs : WF_vars(LockStep(p))

\* Most calls in a run that is checked for termination.
MaxLiveCalls == 3

\* The calls of the methods that take a lock, with one argument each:
\* IsBlocked("b") and UpdateBlacklist(["*.b", " ", "B"]).
LiveNext ==
  \E p \in Procs :
    \/ ncalls < MaxLiveCalls /\ IB_Call(p, <<"b">>)
    \/ ncalls < MaxLiveCalls /\ UB_Call(p, 2)
    \/ ncalls < MaxLiveCalls /\ ST_Call(p)
    \/ ncalls < MaxLiveCalls /\ GP_Call(p)
    \/ LockStep(p)

\* The locking methods of the rule engine under concurrent calls and fair
\* scheduling.
LiveSpec == Init /\ [][LiveNext]_vars /\ LiveFairness

\* The proxy serving requests against a rule set installed at start-up
\* (runProxy calls UpdateBlacklist before the server starts).
ProxySpecInit ==
  /\ \E id \in ListIds : matchers = Compiled(id) /\ installed = id
  /\ mu = [w |-> NoProc, r |-> {}]
  /\ logBlocked = TRUE
  /\ logAllowed = FALSE
  /\ blockedCount = 0
  /\ allowedCount = 0
  /\ statsMu = NoProc
  /\ proc = [p \in Procs |-> Idle]
  /\ retBlocked = 0
  /\ retAllowed = 0
  /\ ncalls = 0
  /\ ProxyInit
  /\ FnOff
  /\ ServerInit
  /\ ConfigOff

\* Goroutines are scheduled fairly: a handler or a transfer that can take its
\* next step eventually takes it.  The remote ends are under no obligation.
ProxyFairness ==
  \A c \in Conns :
    /\ WF_vars(HandlerStep(c))
    /\ \A dir \in Dirs : WF_vars(TransferStep(c, dir))

ProxySpec == ProxySpecInit /\ [][ProxyNext]_vars /\ ProxyFairness

\* Sequential runs of the rule engine over all arguments of the bounded sets.
FnSpecInit == EngineInit /\ ProxyInit /\ FnInit /\ ServerInit /\ ConfigOff

FnSpec == FnSpecInit /\ [][FnNext]_vars

\* Sequential runs of the whole interface of the rule engine.
RuleSpecInit == EngineInit /\ ProxyInit /\ RuleInit /\ ServerInit /\ ConfigOff

RuleSpec == RuleSpecInit /\ [][RuleNext]_vars

\* The plain-HTTP path of the handler over all messages of the bounded sets.
HeaderSpecInit == EngineInit /\ ProxyInit /\ HeaderInit /\ ServerInit /\ ConfigOff

HeaderSpec == HeaderSpecInit /\ [][HeaderNext]_vars

\* The configuration manager under any sequence of calls.
ConfigSpecInit == EngineInit /\ ProxyInit /\ FnOff /\ ServerInit /\ ConfigInit

ConfigSpec == ConfigSpecInit /\ [][ConfigNext]_vars

\* Goroutines of the run command are scheduled fairly: Start, the signal
\* goroutine and Stop take their next step when they can.  Clients, handlers
\* and the network are under no obligation.
ServerFairness ==
  /\ WF_vars(Start_Call) /\ WF_vars(LS_Check) /\ WF_vars(LS_Listen)
  /\ WF_vars(LS_Track) /\ WF_vars(LS_Closed) /\ WF_vars(Start_Return)
  /\ WF_vars(SigHandler) /\ WF_vars(Stop_Begin)

\* The server and the run command's signal handling.
ServerSpec == Init /\ [][ServerNext]_vars /\ ServerFairness

(***************************************************************************)
(* Properties of the rule engine under concurrent calls.                   *)
(***************************************************************************)
HasDecided(p) == proc[p].pc \in {"rec_lock", "rec_store", "ib_log", "ib_runlock"}

HasCounted(p) == proc[p].pc \in {"ib_log", "ib_runlock"}

InIsBlocked(p) == proc[p].pc = "ib_rlock" \/ proc[p].pc = "ib_range" \/ HasDecided(p)

\* C1: UpdateBlacklist is atomic with respect to IsBlocked and GetPatterns:
\* the decision of every IsBlocked call, and the patterns every GetPatterns
\* call returns, are those of one complete list among the list installed when
\* the call was issued and the lists of the UpdateBlacklist calls that
\* overlapped it; never those of an empty, partial or mixed rule set.
C1_AtomicSwap ==
  \A p \in Procs :
    /\ HasDecided(p) =>
         \E c \in proc[p].cands :
           (proc[p].hit # 0) = DecideOn(Compiled(c), proc[p].arg)
    /\ proc[p].pc = "gp_runlock" =>
         \E c \in proc[p].cands : proc[p].res = PatternsOf(Compiled(c))

\* An IsBlocked call has decided while an UpdateBlacklist call that replaces
\* list 1 by list 2 waits for it to leave the rule set.
C1_Witness ==
  \E p, q \in Procs :
    /\ HasDecided(p) /\ proc[p].hit # 0 /\ proc[p].cands = {1, 2}
    /\ proc[q].pc = "ub_acquire" /\ proc[q].list = 2 /\ installed = 1
    /\ p \in mu.r

\* C2: every IsBlocked call adds one to exactly the counter of its outcome:
\* the counters equal the numbers of calls that returned each outcome plus the
\* calls that have counted and not yet returned, and a Stats call made while no
\* IsBlocked call is in flight returns exactly the numbers of Blocked and of
\* Allowed outcomes returned so far.
C2_CountersExact ==
  /\ blockedCount =
       retBlocked + Cardinality({p \in Procs : HasCounted(p) /\ proc[p].hit # 0})
  /\ allowedCount =
       retAllowed + Cardinality({p \in Procs : HasCounted(p) /\ proc[p].hit = 0})
  /\ \A p \in Procs :
       (proc[p].pc = "st_unlock" /\ \A q \in Procs : ~InIsBlocked(q)) =>
         proc[p].res = <<retBlocked, retAllowed>>

\* Stats returns (1, 1) after one Blocked and one Allowed call have returned.
C2_Witness ==
  \E p \in Procs :
    /\ proc[p].pc = "st_unlock"
    /\ \A q \in Procs : ~InIsBlocked(q)
    /\ proc[p].res = <<1, 1>>
    /\ retBlocked = 1 /\ retAllowed = 1

(***************************************************************************)
(* Properties of the protocol handler.                                     *)
(***************************************************************************)
Occurs(seq, e) == \E i \in 1..Len(seq) : seq[i] = e

Count(seq, e) == Cardinality({i \in 1..Len(seq) : seq[i] = e})

IsPrefixOf(a, b) == Len(a) <= Len(b) /\ SubSeq(b, 1, Len(a)) = a

Decided(c) == Occurs(trace[c], "IsBlocked")

NoTunnelSteps(c) ==
  /\ ~Occurs(trace[c], "Hijack")
  /\ ~Occurs(trace[c], "Write200")
  /\ ~Occurs(trace[c], "go toDest")
  /\ ~Occurs(trace[c], "go toClient")
  /\ sock[c].client = "server"
  /\ wire[c].client = <<>>
  /\ xfer[c] = [toDest |-> "none", toClient |-> "none"]

\* C3: on the CONNECT path a host that IsBlocked reports blocked is answered
\* with 403 Forbidden and nothing else happens: no dial, no hijack, no 200
\* line, no relay.
C3_ConnectBlockedStops ==
  \A c \in Conns :
    (req[c].method = "CONNECT" /\ Decided(c) /\ DecideOn(matchers, req[c].host)) =>
      /\ hpc[c] \in {"hc_forbidden", "done"}
      /\ ~Occurs(trace[c], "Dial")
      /\ sock[c].dest = "none"
      /\ NoTunnelSteps(c)
      /\ resp[c] = IF hpc[c] = "done" THEN <<ErrorResponse(403, "Blocked")>> ELSE <<>>

\* CONNECT A.b:8 has been refused with 403.
C3_Witness ==
  \E c \in Conns :
    /\ req[c].method = "CONNECT" /\ req[c].host = <<"A", ".", "b", ":", "8">>
    /\ hpc[c] = "done"
    /\ Len(resp[c]) = 1 /\ resp[c][1].status = 403

\* C4: on the plain-HTTP path a host that IsBlocked reports blocked gets
\* status 403 with Content-Type "text/html; charset=utf-8" and the fixed block
\* page, and no outbound round-trip is attempted.
C4_HTTPBlockedPage ==
  \A c \in Conns :
    (req[c].method = "GET" /\ Decided(c) /\ DecideOn(matchers, HTTPHost(req[c]))) =>
      /\ hpc[c] \in {"hh_blocked", "done"}
      /\ ~Occurs(trace[c], "RoundTrip")
      /\ rt[c] = 0
      /\ sock[c].dest = "none"
      /\ hpc[c] = "done" =>
           /\ Len(resp[c]) = 1
           /\ resp[c][1].status = 403
           /\ resp[c][1].ctype = "text/html; charset=utf-8"
           /\ resp[c][1].body = BlockPage
      /\ hpc[c] # "done" => resp[c] = <<>>

\* A GET whose host comes from the URL has been answered with the block page.
C4_Witness ==
  \E c \in Conns :
    /\ req[c].method = "GET" /\ req[c].host = <<>>
    /\ hpc[c] = "done"
    /\ resp[c] = <<BlockedResponse>>

ConnectOrder == <<"IsBlocked", "Dial", "Hijack", "Write200", "go toDest", "go toClient">>

\* C5: on the CONNECT path the handler's steps come in the order IsBlocked,
\* dial, hijack, write of the 200 line, start of the two copies; the 200 line
\* is written only after a successful dial and a successful hijack, the copies
\* start only after it, and nothing reaches the client before the 200 line.
C5_ConnectOrder ==
  \A c \in Conns :
    req[c].method = "CONNECT" =>
      /\ IsPrefixOf(trace[c], ConnectOrder)
      /\ Occurs(trace[c], "Write200") =>
           sock[c].dest # "none" /\ sock[c].client # "server"
      /\ (xfer[c].toDest # "none" \/ xfer[c].toClient # "none") =>
           Occurs(trace[c], "Write200")
      /\ wire[c].client # <<>> => wire[c].client[1] = "200 Connection Established"
      /\ wire[c].dest # <<>> => Occurs(trace[c], "go toDest")

\* A tunnel is up: the client got the 200 line and then a relayed byte.
C5_Witness ==
  \E c \in Conns :
    /\ trace[c] = ConnectOrder
    /\ Len(wire[c].client) >= 2
    /\ wire[c].client[2] = "byte"
    /\ ~DecideOn(matchers, req[c].host)

CopyReturned(c, dir) == xfer[c][dir] \in {"close1", "close2", "done"}

TunnelClosed(c) ==
  /\ xfer[c] = [toDest |-> "done", toClient |-> "done"]
  /\ sock[c] = [client |-> "closed", dest |-> "closed"]

DialFailed(c) == Occurs(trace[c], "Dial") /\ sock[c].dest = "none"

\* C7: on the CONNECT path, when the dial of an allowed host fails the handler
\* answers 502 Bad Gateway and does nothing else: no hijack, no 200 line, no
\* relay, and the dial is made once.
C7_DialFailure ==
  \A c \in Conns :
    (req[c].method = "CONNECT" /\ DialFailed(c)) =>
      /\ hpc[c] \in {"hc_badgateway", "done"}
      /\ Count(trace[c], "Dial") = 1
      /\ NoTunnelSteps(c)
      /\ resp[c] = IF hpc[c] = "done"
                   THEN <<ErrorResponse(502, "Failed to connect")>> ELSE <<>>

\* A CONNECT whose dial failed has been answered with 502.
C7_Witness ==
  \E c \in Conns :
    /\ req[c].method = "CONNECT" /\ DialFailed(c)
    /\ hpc[c] = "done"
    /\ Len(resp[c]) = 1 /\ resp[c][1].status = 502

\* The dial succeeded and the hijack step is over without the handler owning
\* the client connection.
HijackFailed(c) ==
  /\ req[c].method = "CONNECT"
  /\ Occurs(trace[c], "Dial") /\ sock[c].dest # "none"
  /\ hpc[c] # "hc_hijack"
  /\ sock[c].client = "server"

\* C8: on the CONNECT path, when the destination was dialed and the client
\* connection cannot be hijacked (no Hijacker, or Hijack fails) the handler
\* answers 500, closes the destination connection and starts no relay: the
\* destination connection is closed when the handler returns.
C8_HijackFailure ==
  \A c \in Conns :
    HijackFailed(c) =>
      /\ hpc[c] \in {"hc_unsupported", "hc_hijackfailed", "done"}
      /\ ~Occurs(trace[c], "Write200")
      /\ xfer[c] = [toDest |-> "none", toClient |-> "none"]
      /\ wire[c] = [client |-> <<>>, dest |-> <<>>]
      /\ hpc[c] = "done" =>
           /\ Len(resp[c]) = 1 /\ resp[c][1].status = 500
           /\ sock[c].dest = "closed"
      /\ hpc[c] # "done" => resp[c] = <<>> /\ sock[c].dest = "open"

\* Hijack returned an error after a successful dial; the handler returned.
C8_Witness ==
  \E c \in Conns :
    /\ HijackFailed(c)
    /\ Occurs(trace[c], "Hijack")
    /\ hpc[c] = "done"
    /\ sock[c].dest = "closed"

RoundTripFailed(c) == Occurs(trace[c], "RoundTrip") /\ rt[c] = 0

\* C9: on the plain-HTTP path the round-trip is attempted at most once per
\* request, and when it fails the client gets exactly one response, 502 Bad
\* Gateway with the error text.
C9_RoundTripFailure ==
  \A c \in Conns :
    /\ Count(trace[c], "RoundTrip") <= 1
    /\ (req[c].method = "GET" /\ RoundTripFailed(c)) =>
         /\ hpc[c] \in {"hh_badgateway", "done"}
         /\ resp[c] = IF hpc[c] = "done"
                      THEN <<ErrorResponse(502, "Proxy error: err")>> ELSE <<>>

\* A GET whose round-trip failed has been answered with 502.
C9_Witness ==
  \E c \in Conns :
    /\ req[c].method = "GET" /\ RoundTripFailed(c)
    /\ hpc[c] = "done"
    /\ Len(resp[c]) = 1 /\ resp[c][1].status = 502

TunnelPath(c) == req[c].method = "CONNECT" /\ Occurs(trace[c], "Write200")

\* C10 as claimed: handleConnect joins its two copy operations, so when it has
\* returned both copies have completed and both sockets are closed.
C10_HandlerJoinsCopies ==
  \A c \in Conns :
    (TunnelPath(c) /\ hpc[c] = "done") => TunnelClosed(c)

\* C10 as amended: handleConnect starts both copy operations and returns
\* without waiting for them; when it has returned both copies have been
\* started, and the sockets are closed by the copies: once both copies have
\* completed both sockets are closed.
C10_HandlerDetachesCopies ==
  \A c \in Conns :
    TunnelPath(c) =>
      /\ hpc[c] \in {"hc_go1", "hc_go2", "done"}
      /\ hpc[c] = "done" => xfer[c].toDest # "none" /\ xfer[c].toClient # "none"
      /\ xfer[c] = [toDest |-> "done", toClient |-> "done"] =>
           sock[c] = [client |-> "closed", dest |-> "closed"]

\* The handler has returned while both copies run and both sockets are open.
C10_Witness ==
  \E c \in Conns :
    /\ TunnelPath(c) /\ hpc[c] = "done"
    /\ xfer[c] = [toDest |-> "copy", toClient |-> "copy"]
    /\ sock[c] = [client |-> "open", dest |-> "open"]


(***************************************************************************)
(* Properties of the server's shutdown and of Start (C11 - C13).           *)
(***************************************************************************)
\* C11 as claimed: Stop stops the accept loop, waits for the requests in
\* flight for at most the grace period, and force-closes the connections of
\* those still in flight when it expires: once Stop has returned the listener
\* accepts nothing and no inbound request connection is open.
C11_StopClosesRequests ==
  stop.pc = "returned" =>
    /\ listener # "open"
    /\ stop.elapsed <= GraceSeconds
    /\ \A c \in SConns : conn[c].st \notin {"active", "idle"}

\* C12 as claimed: shutdown closes no tunnel before the grace period has
\* elapsed, and every tunnel still open when the grace period expires is
\* force-closed by the shutdown.
C12_TunnelsClosedAtExpiry ==
  /\ \A c \in SConns :
       (conn[c].hij # "no" /\ conn[c].by = "shutdown") => stop.elapsed = GraceSeconds
  /\ (stop.pc = "returned" /\ stop.elapsed = GraceSeconds) =>
       \A c \in SConns : conn[c].st = "hijacked" => conn[c].hij = "late"

StartFailed == start.err \in {"bind", "accept"}

\* C13: Start returns nil only after Stop has been called and the server is
\* closed; it returns an error exactly when binding or accepting failed for a
\* reason of its own; it has not returned while the listener accepts; and in
\* the run command a signal leads to Stop being called, and Stop being called
\* leads to Start returning, with nil unless binding or accepting had failed.
C13_StartBlocksUntilStopped ==
  /\ [](/\ start.ret = "nil" => stop.pc # "idle" /\ inShutdown
        /\ start.ret = "error" <=> start.pc = "returned" /\ StartFailed
        /\ start.pc = "returned" => listener \in {"none", "closed"}
        /\ listener = "open" => start.pc = "serve" /\ start.ret = "none")
  /\ (sig = "sent") ~> (stop.pc # "idle")
  /\ (stop.pc # "idle") ~> (start.pc = "returned" /\ (start.ret = "nil" \/ StartFailed))

\* After a signal Start has returned nil, having served a connection that is
\* now closed.
C13_Witness ==
  /\ sig = "taken"
  /\ start.pc = "returned" /\ start.ret = "nil" /\ start.err = "ErrServerClosed"
  /\ \E c \in SConns : conn[c].st = "closed"

(***************************************************************************)
(* Properties of the rule engine's locking (C14, C15).                     *)
(***************************************************************************)
\* p waits to perform, or performs, its counter increment (recordBlocked or
\* recordAllowed, called from IsBlocked lines 68 and 76).
Counting(p) == proc[p].pc \in {"rec_lock", "rec_store"}

\* p holds b.mu for reading; p holds it for writing; p waits for it.
HoldsRead(p) == p \in mu.r

HoldsWrite(p) == mu.w = p /\ proc[p].pc \in {"ub_append", "ub_unlock"}

WaitsForMu(p) == proc[p].pc \in {"ib_rlock", "gp_rlock", "ub_lock", "ub_acquire"}

\* The readers an UpdateBlacklist call that has announced itself waits for.
AwaitedBy(w) == IF proc[w].pc = "ub_acquire" THEN mu.r ELSE {}

\* C14 as claimed: counter updates and rule-set swaps never wait for one
\* another: no IsBlocked call holds or waits for the rule-set lock while it
\* performs or waits to perform its counter increment, and no UpdateBlacklist
\* call waits for a goroutine that still has its counter update to finish.
C14_CountersApartFromRules ==
  /\ \A p \in Procs : Counting(p) => ~HoldsRead(p) /\ ~WaitsForMu(p)
  /\ \A w \in Procs : \A p \in AwaitedBy(w) : ~Counting(p)

\* C14 as amended: the counters have their own lock, statsMu, but every
\* counter increment is made inside the read-locked section of IsBlocked: the
\* call holds b.mu for reading while it waits for and performs the increment
\* (so an UpdateBlacklist call that has announced itself waits for it).  A
\* counter update never waits for a swap: no writer is inside its critical
\* section while an increment is pending, the holder of statsMu never waits for
\* b.mu, and b.mu for writing is never held together with statsMu.
C14_CountersInsideReadLock ==
  /\ \A p \in Procs : Counting(p) => HoldsRead(p) /\ \A w \in Procs : ~HoldsWrite(w)
  /\ \A p \in Procs : statsMu = p => proc[p].pc \in {"rec_store", "st_unlock"}
  /\ \A p \in Procs : statsMu = p => ~WaitsForMu(p) /\ ~HoldsWrite(p)

\* An UpdateBlacklist call has announced itself and waits for a reader that
\* holds statsMu in the middle of its counter increment.
C14_Witness ==
  \E w \in Procs : \E p \in AwaitedBy(w) :
    /\ proc[p].pc = "rec_store"
    /\ statsMu = p
    /\ HoldsRead(p)

\* The field of Blocker the next step of p reads ("r") or writes ("w"), as a
\* set of <<field, kind>>; empty when the step touches no field.
AccessOf(p) ==
  LET pc  == proc[p].pc
      cnt == IF proc[p].hit # 0 THEN "blockedCount" ELSE "allowedCount"
      flg == IF proc[p].hit # 0 THEN "logBlocked" ELSE "logAllowed"
  IN  CASE pc = "ib_range"   -> {<<"matchers", "r">>}
        [] pc = "gp_read"    -> {<<"matchers", "r">>}
        [] pc = "ub_acquire" -> {<<"matchers", "w">>}
        [] pc = "ub_append"  -> {<<"matchers", "r">>, <<"matchers", "w">>}
        [] pc = "rec_lock"   -> {<<cnt, "r">>}
        [] pc = "rec_store"  -> {<<cnt, "w">>}
        [] pc = "st_lock"    -> {<<"blockedCount", "r">>, <<"allowedCount", "r">>}
        [] pc = "ib_log"     -> {<<flg, "r">>}
        [] pc = "sl_blocked" -> {<<"logBlocked", "w">>}
        [] pc = "sl_allowed" -> {<<"logAllowed", "w">>}
        [] OTHER             -> {}

\* The locks p holds while it makes that access, as <<lock, mode>>: "R" shared,
\* "W" exclusive.  A step that acquires a lock and then touches the field holds
\* the lock during the access.
LocksDuring(p) ==
  LET pc == proc[p].pc
  IN  CASE pc \in {"ib_range", "ib_log", "gp_read"} -> {<<"mu", "R">>}
        [] pc \in {"rec_lock", "rec_store"}         -> {<<"mu", "R">>, <<"statsMu", "W">>}
        [] pc \in {"ub_acquire", "ub_append"}       -> {<<"mu", "W">>}
        [] pc = "st_lock"                           -> {<<"statsMu", "W">>}
        [] OTHER                                    -> {}

\* p and q hold a common lock that keeps their accesses apart.
CommonLock(p, q) ==
  \E l \in LocksDuring(p) : \E m \in LocksDuring(q) :
    l[1] = m[1] /\ (l[2] = "W" \/ m[2] = "W")

\* p is about to write a field that q is about to read or write.
Conflict(p, q) ==
  \E a \in AccessOf(p) : \E b \in AccessOf(q) : a[1] = b[1] /\ a[2] = "w"

\* C15 as claimed: with IsBlocked, UpdateBlacklist, Stats, GetPatterns and
\* SetLogging running concurrently, no goroutine writes a field of Blocker
\* while another reads or writes that field without a common lock.
C15_EveryAccessLocked ==
  \A p \in Procs : \A q \in Procs \ {p} : Conflict(p, q) => CommonLock(p, q)


(***************************************************************************)
(* Properties of IsBlocked and the matchers as functions (C16 - C20).      *)
(***************************************************************************)
\* The entries of a blacklist that UpdateBlacklist turns into rules, in order.
NonBlank(patterns) == SelectSeq(patterns, LAMBDA q : TrimSpace(q) # <<>>)

\* C16: IsBlocked tests the rules in the order of the blacklist and the first
\* match wins: the result is Blocked exactly when some rule matches the tested
\* string; then the matcher hit is the matching rule of lowest index, the text
\* given to the log is that rule's, and no rule after it is consulted; when no
\* rule matches every rule has been consulted.
C16_FirstMatchWins ==
  fnPc = "decided" =>
    LET rules == NonBlank(fnIn.patterns)
        M     == {i \in 1..Len(rules) : Match(CreateMatcher(rules[i]), fnOut.tested)}
    IN  /\ fnOut.result = (M # {})
        /\ M # {} => /\ fnOut.hit \in M
                     /\ \A j \in M : fnOut.hit <= j
                     /\ fnOut.text = ToLower(TrimSpace(rules[fnOut.hit]))
                     /\ fnOut.seen = 1..fnOut.hit
        /\ M = {} => fnOut.hit = 0 /\ fnOut.seen = 1..Len(rules)

\* "a.b" against ["*.b.*", "*.b", "b"]: the first rule does not match, the
\* second and the third do, and the call reports the second.
C16_Witness ==
  /\ fnPc = "decided"
  /\ fnIn.patterns = <<DoubleRule(<<"b">>), PrefixRule(<<"b">>), ExactRule(<<"b">>)>>
  /\ fnIn.domain = <<"a", ".", "b">>
  /\ fnOut.hit = 2 /\ fnOut.text = <<"*", ".", "b">> /\ fnOut.seen = {1, 2}
  /\ Match(matchers[3], fnOut.tested)

Upper(c) ==
  CASE c = "a" -> "A"
    [] c = "b" -> "B"
    [] c = "c" -> "C"
    [] OTHER   -> c

ToUpper(s) == [i \in 1..Len(s) |-> Upper(s[i])]

HasColon(s) == \E i \in 1..Len(s) : s[i] = ":"

\* The argument without its trailing ":port": what stands before the ":"
\* that no other ":" follows; the whole argument when it has no ":".
BeforeLastColon(s) ==
  IF HasColon(s)
  THEN LET k == CHOOSE i \in 1..Len(s) :
                  s[i] = ":" /\ ~HasColon(SubSeq(s, i + 1, Len(s)))
       IN  SubSeq(s, 1, k - 1)
  ELSE s

Ports == { <<"8">>, <<"8", "0">> }

\* C17: the string IsBlocked tests is lower(trim(argument without its
\* trailing ":port")); an argument without ":" is not shortened; and the
\* argument with a port appended, in upper case, or with blanks around it, is
\* decided as the argument itself.
C17_Normalizes ==
  fnPc = "decided" =>
    LET arg == fnIn.domain
    IN  /\ fnOut.tested = ToLower(TrimSpace(BeforeLastColon(arg)))
        /\ ~HasColon(arg) =>
             /\ fnOut.tested = ToLower(TrimSpace(arg))
             /\ \A port \in Ports :
                  DecideOn(matchers, arg \o <<":">> \o port) = fnOut.result
        /\ DecideOn(matchers, ToUpper(arg)) = fnOut.result
        /\ DecideOn(matchers, <<" ">> \o arg \o <<" ">>) = fnOut.result

\* " a.B :80 " against ["b"]: the string tested is "a.b", and it is blocked.
C17_Witness ==
  /\ fnPc = "decided"
  /\ fnIn.patterns = <<ExactRule(<<"b">>)>>
  /\ fnIn.domain = <<" ", "a", ".", "B", " ", ":", "8", "0", " ">>
  /\ fnOut.tested = <<"a", ".", "b">>
  /\ fnOut.result

\* C18: with blacklist [x], x without wildcards, IsBlocked blocks exactly the
\* domains equal to x or ending in "." + x: x and sub.x are blocked, notx and
\* x.other are allowed.
C18_ExactRule ==
  fnPc = "decided" =>
    \A x \in FnNames :
      fnIn.patterns = <<ExactRule(x)>> =>
        /\ fnOut.result = (fnOut.tested = x \/ HasSuffix(fnOut.tested, <<".">> \o x))
        /\ fnIn.domain \in {x, <<"s", "u", "b", ".">> \o x} => fnOut.result
        /\ fnIn.domain \in {<<"n", "o", "t">> \o x,
                            x \o <<".", "o", "t", "h", "e", "r">>} => ~fnOut.result

\* "sub.b" against ["b"] is blocked.
C18_Witness ==
  /\ fnPc = "decided"
  /\ fnIn.patterns = <<ExactRule(<<"b">>)>>
  /\ fnIn.domain = <<"s", "u", "b", ".", "b">>
  /\ fnOut.result

\* C19: with blacklist ["*." + x], IsBlocked blocks exactly the domains that
\* end in "." + x and are not x itself: x is allowed, a.x and a.b.x are
\* blocked, notx is allowed.
C19_PrefixRule ==
  fnPc = "decided" =>
    \A x \in FnNames :
      fnIn.patterns = <<PrefixRule(x)>> =>
        /\ fnOut.result = (HasSuffix(fnOut.tested, <<".">> \o x) /\ fnOut.tested # x)
        /\ fnIn.domain \in {<<"a", ".">> \o x, <<"a", ".", "b", ".">> \o x} => fnOut.result
        /\ fnIn.domain \in {x, <<"n", "o", "t">> \o x} => ~fnOut.result

\* "b" against ["*.b"] is allowed: the rule spares the bare name.
C19_Witness ==
  /\ fnPc = "decided"
  /\ fnIn.patterns = <<PrefixRule(<<"b">>)>>
  /\ fnIn.domain = <<"b">>
  /\ ~fnOut.result
  /\ fnOut.seen = {1}

\* C20: with blacklist [x + ".*"], IsBlocked blocks exactly the domains that
\* start with x + "." followed by at least one more character, or contain
\* "." + x + ".": x.com, x.de, x.co.uk and www.x.com are blocked, notx.com and
\* x are allowed.
C20_SuffixRule ==
  fnPc = "decided" =>
    \A x \in FnNames :
      fnIn.patterns = <<SuffixRule(x)>> =>
        /\ fnOut.result =
             \/ HasPrefix(fnOut.tested, x \o <<".">>) /\ Len(fnOut.tested) > Len(x) + 1
             \/ Contains(fnOut.tested, <<".">> \o x \o <<".">>)
        /\ fnIn.domain \in {x \o <<".", "c", "o", "m">>,
                            x \o <<".", "d", "e">>,
                            x \o <<".", "c", "o", ".", "u", "k">>,
                            <<"w", "w", "w", ".">> \o x \o <<".", "c", "o", "m">>}
             => fnOut.result
        /\ fnIn.domain \in {<<"n", "o", "t">> \o x \o <<".", "c", "o", "m">>, x}
             => ~fnOut.result

\* "www.b.com" against ["b.*"] is blocked, through the "." + x + "." branch.
C20_Witness ==
  /\ fnPc = "decided"
  /\ fnIn.patterns = <<SuffixRule(<<"b">>)>>
  /\ fnIn.domain = <<"w", "w", "w", ".", "b", ".", "c", "o", "m">>
  /\ fnOut.result


\* C21: with blacklist ["*." + x + ".*"], IsBlocked blocks exactly the domains
\* that contain "." + x + ".": www.x.com is blocked, x.com, x.de and x.co.uk
\* (nothing in front of x) and notx.com are allowed.
C21_DoubleRule ==
  fnPc = "decided" =>
    \A x \in FnNames :
      fnIn.patterns = <<DoubleRule(x)>> =>
        /\ fnOut.result = Contains(fnOut.tested, <<".">> \o x \o <<".">>)
        /\ fnIn.domain = <<"w", "w", "w", ".">> \o x \o <<".", "c", "o", "m">>
             => fnOut.result
        /\ fnIn.domain \in {x \o <<".", "c", "o", "m">>,
                            x \o <<".", "d", "e">>,
                            x \o <<".", "c", "o", ".", "u", "k">>,
                            <<"n", "o", "t">> \o x \o <<".", "c", "o", "m">>}
             => ~fnOut.result

\* "www.b.com" against ["*.b.*"] is blocked.
C21_Witness ==
  /\ fnPc = "decided"
  /\ fnIn.patterns = <<DoubleRule(<<"b">>)>>
  /\ fnIn.domain = <<"w", "w", "w", ".", "b", ".", "c", "o", "m">>
  /\ fnOut.result
  /\ fnOut.text = <<"*", ".", "b", ".", "*">>


(***************************************************************************)
(* Properties of the rule set as UpdateBlacklist builds it and GetPatterns *)
(* reports it (C22 - C26).                                                 *)
(***************************************************************************)
StartsStarDot(t) == Len(t) >= 2 /\ t[1] = "*" /\ t[2] = "."

EndsDotStar(t) == Len(t) >= 2 /\ t[Len(t) - 1] = "." /\ t[Len(t)] = "*"

Kinds == {"Exact", "PrefixWildcard", "SuffixWildcard", "DoubleWildcard"}

KindBy(starts, ends) ==
  IF starts /\ ends THEN "DoubleWildcard"
  ELSE IF starts THEN "PrefixWildcard"
  ELSE IF ends THEN "SuffixWildcard"
  ELSE "Exact"

\* C22: CreateMatcher is total: every entry that is non-empty after trimming
\* becomes a matcher of exactly one of the four kinds, and the kind depends
\* only on whether the trimmed entry starts with "*." and whether it ends with
\* ".*" (both: DoubleWildcard, only the first: PrefixWildcard, only the
\* second: SuffixWildcard, neither: Exact), also for "*.*", "*." and ".*".
C22_CompileTotal ==
  fnPc = "once" =>
    LET L == NonBlank(fnIn.patterns)
    IN  /\ Len(matchers) = Len(L)
        /\ \A j \in 1..Len(L) :
             LET t == TrimSpace(L[j])
             IN  /\ matchers[j].kind \in Kinds
                 /\ matchers[j].kind = KindBy(StartsStarDot(t), EndsDotStar(t))

\* The entries "*.a.*", "*.", ".*" and "*.*" compiled in one list: the second
\* is a PrefixWildcard, the third a SuffixWildcard and the last, where prefix
\* and suffix overlap, a DoubleWildcard.
C22_Witness ==
  /\ fnPc = "once"
  /\ fnIn.patterns = << <<"*", ".", "A", ".", "*", " ">>, <<" ">>, <<"*", ".">>,
                        <<".", "*">>, <<"*", ".", "*">> >>
  /\ Len(matchers) = 4
  /\ matchers[1].kind = "DoubleWildcard"
  /\ matchers[2].kind = "PrefixWildcard"
  /\ matchers[3].kind = "SuffixWildcard"
  /\ matchers[4].kind = "DoubleWildcard"

\* The matchers of a rule set, without their order.
RulesIn(ms) == {ms[j] : j \in 1..Len(ms)}

\* C23: UpdateBlacklist(L) rebuilds the rule set wholesale: when it returns,
\* b.matchers holds the compiled entries of L that are not blank after
\* trimming, in the order of L and as many as L has such entries, and a rule
\* of the set installed before is still there only if L has an entry for it.
C23_ReplacesWholesale ==
  fnPc = "once" =>
    LET L    == fnIn.patterns
        kept == NonBlank(L)
        old  == fnOut.sets[1]
    IN  /\ Len(matchers) = Cardinality({i \in 1..Len(L) : TrimSpace(L[i]) # <<>>})
        /\ matchers = [j \in 1..Len(kept) |-> CreateMatcher(kept[j])]
        /\ fnOut.sets[2] = matchers
        /\ \A m \in RulesIn(old) :
             m \in RulesIn(matchers) =>
               \E i \in 1..Len(L) : TrimSpace(L[i]) # <<>> /\ CreateMatcher(L[i]) = m

\* After ["*.c", "a"], the list [" ", " B ", "a"] leaves two rules, "b" and
\* "a": the blank entry is dropped, "*.c" is gone and "a" is there because
\* the new list names it.
C23_Witness ==
  /\ fnPc = "once"
  /\ fnIn.prev = << <<"*", ".", "c">>, <<"a">> >>
  /\ fnIn.patterns = << <<" ">>, <<" ", "B", " ">>, <<"a">> >>
  /\ Len(fnOut.sets[1]) = 2
  /\ Len(matchers) = 2
  /\ matchers[1].key = <<"b">>
  /\ matchers[2] = fnOut.sets[1][2]
  /\ fnOut.sets[1][1] \notin RulesIn(matchers)
\* C24: UpdateBlacklist is idempotent: a second call with the same list leaves
\* what GetPatterns returns and what IsBlocked decides for every domain as
\* they were after the first, and so does a call with the list GetPatterns
\* returned.
C24_Idempotent ==
  /\ Len(fnOut.got) >= 2 =>
       /\ fnOut.got[2] = fnOut.got[1]
       /\ \A d \in RuleDomains :
            DecideOn(fnOut.sets[3], d) = DecideOn(fnOut.sets[2], d)
  /\ Len(fnOut.got) >= 3 =>
       /\ fnOut.got[3] = fnOut.got[2]
       /\ \A d \in RuleDomains :
            DecideOn(fnOut.sets[4], d) = DecideOn(fnOut.sets[2], d)
  /\ fnPc = "decided" => fnOut.result = DecideOn(fnOut.sets[2], fnIn.domain)

\* [" *.B ", "A.*", "*.*"] installed twice and then as GetPatterns reported it:
\* the three reports are the same and " x.A.b:8" is blocked after each.
C24_Witness ==
  /\ fnPc = "decided"
  /\ fnIn.patterns = << <<" ", "*", ".", "B", " ">>, <<"A", ".", "*">>,
                        <<"*", ".", "*">> >>
  /\ fnIn.domain = <<" ", "x", ".", "A", ".", "b", ":", "8">>
  /\ Len(fnOut.sets) = 4
  /\ fnOut.got = << fnOut.got[1], fnOut.got[1], fnOut.got[1] >>
  /\ Len(fnOut.got[1]) = 3
  /\ fnOut.result
  /\ DecideOn(fnOut.sets[2], fnIn.domain)

\* C25 as claimed: GetPatterns returns, in rule order, the text of every rule
\* as it was given to UpdateBlacklist, also for entries written with
\* upper-case letters or with blanks around them.
C25_ReturnsOriginalText ==
  Len(fnOut.got) >= 1 => fnOut.got[1] = NonBlank(fnIn.patterns)

\* What the code keeps of an entry: GetPatterns returns the entries trimmed
\* and in lower case, in rule order.
GetPatternsNormalizes ==
  Len(fnOut.got) >= 1 =>
    LET kept == NonBlank(fnIn.patterns)
    IN  fnOut.got[1] = [j \in 1..Len(kept) |-> ToLower(TrimSpace(kept[j]))]

\* C26: an IsBlocked call prints at most one line, and prints one exactly when
\* the flag of its outcome is set: a blocked call prints the tested domain and
\* the text of the matching rule iff logBlocked, an allowed call prints the
\* tested domain iff logAllowed.  New() sets logBlocked and clears logAllowed,
\* and the flags change neither the result nor the counters.
C26_LogFollowsFlags ==
  /\ (fnPc = "new" \/ ~fnIn.setLogging) => logBlocked /\ ~logAllowed
  /\ (fnPc \notin {"new"} /\ fnIn.setLogging) =>
       logBlocked = fnIn.flags[1] /\ logAllowed = fnIn.flags[2]
  /\ fnPc # "decided" => fnOut.log = <<>>
  /\ fnPc = "decided" =>
       /\ Len(fnOut.log) <= 1
       /\ fnOut.result =>
            /\ fnOut.log # <<>> <=> logBlocked
            /\ logBlocked =>
                 fnOut.log = <<[level |-> "BLOCKED", domain |-> fnOut.tested,
                                matched |-> matchers[fnOut.hit].pattern]>>
       /\ ~fnOut.result =>
            /\ fnOut.log # <<>> <=> logAllowed
            /\ logAllowed =>
                 fnOut.log = <<[level |-> "ALLOWED", domain |-> fnOut.tested,
                                matched |-> <<>>]>>
       /\ fnOut.tested = NormalizeDomain(fnIn.domain)
       /\ fnOut.result = DecideOn(matchers, fnIn.domain)
       /\ blockedCount = (IF fnOut.result THEN 1 ELSE 0)
       /\ allowedCount = (IF fnOut.result THEN 0 ELSE 1)

\* After SetLogging(false, true), " x.A.b:8" against ["a"] is allowed and
\* printed as "x.a.b"; the same run's flags would have kept a blocked call
\* silent.
C26_Witness ==
  /\ fnPc = "decided"
  /\ fnIn.setLogging
  /\ fnIn.flags = <<FALSE, TRUE>>
  /\ fnIn.patterns = << <<"a">> >>
  /\ fnIn.domain = <<" ", "x", ".", "A", ".", "b", ":", "8">>
  /\ ~fnOut.result
  /\ fnOut.log = <<[level |-> "ALLOWED", domain |-> <<"x", ".", "a", ".", "b">>,
                    matched |-> <<>>]>>

\* With the flags New() sets, "b.a" against ["a"] is blocked and printed with
\* the rule "a".
C26_WitnessBlocked ==
  /\ fnPc = "decided"
  /\ ~fnIn.setLogging
  /\ fnIn.patterns = << <<"a">> >>
  /\ fnIn.domain = <<"b", ".", "a">>
  /\ fnOut.result
  /\ fnOut.log = <<[level |-> "BLOCKED", domain |-> <<"b", ".", "a">>,
                    matched |-> <<"a">>]>>

(***************************************************************************)
(* Properties of the plain-HTTP path (C27).                                *)
(***************************************************************************)
\* The hop-by-hop header names.
HopByHop ==
  {"Connection", "Keep-Alive", "Proxy-Authenticate", "Proxy-Authorization", "TE",
   "Trailers", "Transfer-Encoding", "Upgrade"}

\* Header names are compared without regard to case.
SameName(a, b) == CanonicalMIMEHeaderKey(a) = CanonicalMIMEHeaderKey(b)

IsHop(name) == \E h \in HopByHop : SameName(name, h)

\* The values a message gives for a header name, in the order of its lines.
ValuesOf(lines, name) ==
  LET sel == SelectSeq(lines, LAMBDA l : SameName(l[1], name))
  IN  [i \in 1..Len(sel) |-> sel[i][2]]

\* Header map h holds the lines of a message that are not hop-by-hop, each
\* name with all its values in order, and nothing else.
PassedThrough(h, lines) ==
  /\ \A k \in DOMAIN h : ~IsHop(k) /\ \E i \in 1..Len(lines) : SameName(lines[i][1], k)
  /\ \A i \in 1..Len(lines) :
       ~IsHop(lines[i][1]) =>
         \E k \in DOMAIN h : SameName(k, lines[i][1]) /\ h[k] = ValuesOf(lines, k)
  /\ \A i \in 1..Len(lines) :
       IsHop(lines[i][1]) => \A k \in DOMAIN h : ~SameName(k, lines[i][1])

\* C27: on the plain-HTTP path, for an allowed host and a round trip that
\* succeeds, the client gets the origin's status code, no hop-by-hop header
\* (Connection, Keep-Alive, Proxy-Authenticate, Proxy-Authorization, TE,
\* Trailers, Transfer-Encoding, Upgrade) is in the request given to the
\* transport or in the headers of the response to the client, and every other
\* header of the request and of the origin's response is passed on.
C27_HopHeadersStripped ==
  /\ fnPc \in {"relay", "relayed"} => PassedThrough(fnOut.sent, fnIn.reqLines)
  /\ fnPc = "relayed" =>
       /\ fnOut.status = fnIn.status
       /\ PassedThrough(fnOut.header, fnIn.respLines)

\* A request and a response with every line: "Accept" with both values,
\* "Trailer" and "X-Id" are passed on in both directions, the rest is gone,
\* and the client gets the origin's 404.
C27_Witness ==
  /\ fnPc = "relayed"
  /\ fnIn.reqLines = AllHeaderLines
  /\ fnIn.respLines = AllHeaderLines
  /\ fnIn.status = 404
  /\ fnOut.status = 404
  /\ DOMAIN fnOut.sent = {"Accept", "Trailer", "X-Id"}
  /\ DOMAIN fnOut.header = {"Accept", "Trailer", "X-Id"}
  /\ fnOut.header["Accept"] = <<"a", "b">>
  /\ fnOut.sent["Accept"] = <<"a", "b">>

(***************************************************************************)
(* Frame conditions of the rule engine under concurrent calls (C29).       *)
(***************************************************************************)
\* The method a goroutine at position pc is executing.
MethodAt(pc) ==
  CASE pc \in {"ib_rlock", "ib_range", "rec_lock", "rec_store", "ib_log",
               "ib_runlock"}                            -> "IsBlocked"
    [] pc \in {"ub_lock", "ub_acquire", "ub_append", "ub_unlock"}
                                                        -> "UpdateBlacklist"
    [] pc \in {"st_lock", "st_unlock"}                  -> "Stats"
    [] pc \in {"gp_rlock", "gp_read", "gp_runlock"}     -> "GetPatterns"
    [] pc \in {"sl_blocked", "sl_allowed"}              -> "SetLogging"
    [] OTHER                                            -> "none"

\* The method whose step goroutine p takes in this transition, "none" when p
\* does not move.
StepOf(p) ==
  IF proc'[p].pc = proc[p].pc /\ proc'[p].i = proc[p].i THEN "none"
  ELSE IF proc[p].pc = "idle" THEN MethodAt(proc'[p].pc)
  ELSE MethodAt(proc[p].pc)

FrameStep ==
  /\ \A p \in Procs :
       /\ StepOf(p) = "UpdateBlacklist" =>
            UNCHANGED <<blockedCount, allowedCount, logBlocked, logAllowed>>
       /\ StepOf(p) \in {"Stats", "GetPatterns"} =>
            UNCHANGED <<matchers, blockedCount, allowedCount, logBlocked, logAllowed>>
       /\ StepOf(p) = "IsBlocked" => UNCHANGED <<matchers, logBlocked, logAllowed>>
       /\ StepOf(p) = "SetLogging" => UNCHANGED <<matchers, blockedCount, allowedCount>>
  /\ blockedCount' >= blockedCount
  /\ allowedCount' >= allowedCount
  /\ \E p \in Procs : StepOf(p) # "none"

\* C29: UpdateBlacklist changes only the rule set and leaves both counters and
\* both log flags as they are, and no operation resets or decreases a
\* counter; Stats and GetPatterns change neither rule set, counters nor flags;
\* IsBlocked never changes the rule set or the flags; SetLogging changes only
\* the two flags.
C29_FrameConditions == [][FrameStep]_vars

\* A call of UpdateBlacklist has rebuilt the rule set and is about to return,
\* after a call of IsBlocked was counted and SetLogging(false, true) changed
\* the flags: the counter and the flags are as those calls left them.
C29_Witness ==
  /\ \E p \in Procs : proc[p].pc = "ub_unlock" /\ matchers # <<>>
  /\ allowedCount >= 1
  /\ ~logBlocked
  /\ logAllowed

(***************************************************************************)
(* Properties of the configuration manager (C30).                          *)
(***************************************************************************)
DuplicateFree(list) ==
  \A i \in 1..Len(list) : \A j \in 1..Len(list) : list[i] = list[j] => i = j

\* A call that would change nothing is refused and changes nothing: adding a
\* domain that is in the list, removing one that is not.
NoOpEditRejected ==
  /\ (cfgCall.op = "add" /\ InBlacklist(cfgCall.before, cfgCall.domain)) =>
       /\ cfgCall.err # "nil"
       /\ cfgBlacklist = cfgCall.before
       /\ cfgFile = cfgCall.fileBefore
  /\ (cfgCall.op = "remove" /\ ~InBlacklist(cfgCall.before, cfgCall.domain)) =>
       /\ cfgCall.err # "nil"
       /\ cfgBlacklist = cfgCall.before
       /\ cfgFile = cfgCall.fileBefore

\* A list without duplicates stays without duplicates.
StaysDuplicateFree == DuplicateFree(cfgBlacklist)

\* C30 as claimed: AddToBlacklist of a domain in the list and
\* RemoveFromBlacklist of a domain not in it return an error and leave the
\* list in memory and the file as they were; a list without duplicates stays
\* so under any sequence of calls; and whenever AddToBlacklist or
\* RemoveFromBlacklist returns an error, a failed save included, the list in
\* memory is what it was before the call.
C30_ErrorsLeaveListUnchanged ==
  /\ NoOpEditRejected
  /\ StaysDuplicateFree
  /\ (cfgCall.op \in {"add", "remove"} /\ cfgCall.err # "nil") =>
       cfgBlacklist = cfgCall.before

(***************************************************************************)
(* The two locks of the rule engine (C28).                                 *)
(***************************************************************************)
HoldsStats(p) == statsMu = p

WaitsForStats(p) == proc[p].pc \in {"rec_lock", "st_lock"}

\* statsMu is taken alone (Stats) or inside the read lock (IsBlocked), never
\* by the holder of the write lock, and b.mu is never requested by the holder
\* of statsMu.
LockOrder ==
  \A p \in Procs :
    /\ (HoldsStats(p) \/ WaitsForStats(p)) =>
         /\ mu.w # p
         /\ HoldsRead(p) <=> MethodAt(proc[p].pc) = "IsBlocked"
         /\ ~HoldsRead(p) <=> MethodAt(proc[p].pc) = "Stats"
    /\ WaitsForMu(p) => ~HoldsStats(p) /\ ~WaitsForStats(p)

\* Every call that was begun has returned.  A goroutine makes finitely many
\* calls, so every call returns exactly when from some point on none is open.
AllReturned == \A p \in Procs : proc[p].pc = "idle"

\* C28: the two locks cannot deadlock: statsMu is only acquired alone or
\* while holding b.mu for reading, b.mu is never acquired while holding
\* statsMu, and under fair scheduling every call of IsBlocked,
\* UpdateBlacklist, Stats, GetPatterns (and SetLogging) that was begun
\* returns, also when a writer waits for b.mu while readers are inside
\* IsBlocked.
C28_NoDeadlock ==
  /\ []LockOrder
  /\ <>[]AllReturned

\* An UpdateBlacklist call has announced itself and waits for b.mu while an
\* IsBlocked call holds the read lock and waits for statsMu, which a Stats
\* call holds.
C28_Witness ==
  \E w \in Procs : \E r \in Procs : \E s \in Procs :
    /\ proc[w].pc = "ub_acquire" /\ mu.w = w
    /\ proc[r].pc = "rec_lock" /\ r \in mu.r
    /\ proc[s].pc = "st_unlock" /\ statsMu = s

=============================================================================
